---- MODULE Spec2Model ----
(***************************************************************************)
(* The synchronization engine of tss: src/sync/mod.rs (run_sync,           *)
(* run_audit), src/sync/state.rs (sync_state and sync_runs tables) and the *)
(* transcripts table of src/db/mod.rs, driven from the Sync command of     *)
(* src/main.rs.  One invocation of the command runs at a time; its         *)
(* position is pc and its local variables are the record run.              *)
(***************************************************************************)
EXTENDS Integers, Sequences, FiniteSets, Bags, TLC

\* ---------------------------------------------------------------- bounds
MaxIds == 3
MaxTime == 2
PageSize == 2
MaxPages == 2
MaxTagRequests == 2
MaxVersions == 2
MaxSegs == 2
MaxChars == 3
RawCap == 2

Ids == 1..MaxIds
Times == 0..MaxTime

\* -------------------------------------------------------------- constants
\* main.rs: let valid_sources = ["fireflies", "pocket"]; also the source labels
\* a stored transcript can carry.
Sources == {"fireflies", "pocket"}

\* The sources whose remote collection and synchronization are followed.
Synced == {"pocket"}

\* Option<T>: None is the empty sequence, Some(v) the one-element sequence.
None == << >>
Some(v) == <<v>>
Unwrap(o) == o[1]

\* The clock and the providers' dates count ticks of half a second; the
\* cursor is formatted with "%Y-%m-%dT%H:%M:%SZ", whole seconds.
TicksPerSecond == 2
Truncate(t) == (t \div TicksPerSecond) * TicksPerSecond

\* A record's date as the provider sends it: Some(instant), or None when the
\* field is absent or is not an RFC 3339 timestamp.
Dates == {None} \cup {Some(t) : t \in Times}

\* RFC 3339 allows a numeric UTC offset in place of "Z".  Shifted(t) is the
\* instant t written with the offset +00:01: its text reads one minute later
\* than the text of Some(t).  Unwrap gives the instant of either form.
MinuteTicks == 60 * TicksPerSecond
Shifted(t) == <<t, MinuteTicks>>
PocketDates == Dates \cup {Shifted(t) : t \in Times}

\* format!("{}.last_sync_at", source)
CursorKey(source) == <<source, "last_sync_at">>

\* The tag names an invocation can be given (--tag, or default_tag).
TagNames == {"work", "home"}

\* format!("pocket.tag_id.{}", tag_name)
TagKey(tag_name) == <<"pocket", "tag_id", tag_name>>

StateKeys == {CursorKey(s) : s \in Sources} \cup {TagKey(n) : n \in TagNames}

VARIABLES
    now,          \* the wall clock (chrono::Utc::now()), in ticks
    provider,     \* per synced source: the remote collection, a set of [id, date]
    transcripts,  \* table transcripts: a set of [id, source], id PRIMARY KEY
    sync_state,   \* table sync_state: key -> Option<value>
    sync_runs,    \* table sync_runs: the rows inserted by the invocation
    pc,           \* position of the running invocation, "idle" when none
    run,          \* the invocation's options and local variables; quiet, pre_state
                  \* and pre_rows record what held when it began, since the
                  \* argument list_remote was called with
    result,       \* how the last invocation returned
    calls,        \* storage write operations the invocation has called
    outcomes,     \* per item of the invocation's loop: "ok", or "err" when it failed
    chg,          \* per synced source: the remote changed since the cursor was written
    prev_quiet,   \* the last invocation was an incremental sync, not a dry run,
                  \* over an unchanged remote, and it returned Ok
    segments,     \* table segments: a bag of [transcript_id, text, segment_index]
                  \* (the rows differ in their AUTOINCREMENT id)
    tag_requests, \* per tag name: the tags-list requests sent to Pocket so far
    written,      \* per id: the last insert_transcript / delete_transcript call made
                  \* directly on the store, and whether it replaced another version
    tags,         \* Pocket's tag list, a sequence of [name, id]; followed where the
                  \* resolution of a tag is studied on its own, else left empty
                  \* and the answer of the tags request left open
    prev_clean,   \* Some(source) when the last invocation was an initial sync of
                  \* that source, not a dry run, listed without a bound, that
                  \* returned Ok with a SyncRun completed with errors = 0, and
                  \* nothing happened since; else None
    interrupted   \* Some(what the last invocation, a run_sync, was doing when the
                  \* process was killed), until the next invocation returns

vars == <<now, provider, transcripts, sync_state, sync_runs, pc, run, result,
          calls, outcomes, chg, prev_quiet, segments, tag_requests, written, tags, prev_clean, interrupted>>

\* ------------------------------------------------------------ sequences
RECURSIVE SelectSeqIx(_, _, _)
SelectSeqIx(s, Test(_), i) ==
    IF i > Len(s) THEN << >>
    ELSE IF Test(s[i]) THEN <<s[i]>> \o SelectSeqIx(s, Test, i + 1)
         ELSE SelectSeqIx(s, Test, i + 1)

Range(s) == {s[i] : i \in 1..Len(s)}

\* String::cmp on the date strings: an absent date is the empty string, below
\* every timestamp; timestamps compare by their text, which for one written
\* with an offset is the local reading, not the instant.
DateOrd(d) ==
    IF d = None THEN -1
    ELSE IF Len(d) = 2 THEN d[1] + d[2]
    ELSE Unwrap(d)

\* Vec::sort_by(|a, b| b.date.cmp(&a.date)): a stable sort, newest first.
RECURSIVE InsertDesc(_, _)
InsertDesc(e, s) ==
    IF s = << >> THEN <<e>>
    ELSE IF DateOrd(Head(s).date) >= DateOrd(e.date) THEN <<Head(s)>> \o InsertDesc(e, Tail(s))
         ELSE <<e>> \o s

RECURSIVE SortDesc(_)
SortDesc(s) ==
    IF s = << >> THEN << >>
    ELSE LET rest == SortDesc(SubSeq(s, 1, Len(s) - 1))
         IN InsertDesc(s[Len(s)], rest)

\* The provider's pages, in the provider's native order (by id).
RECURSIVE Pages(_, _)
Pages(items, i) ==
    IF i > MaxIds THEN << >>
    ELSE LET here == {e \in items : e.id = i}
         IN (IF here = {} THEN << >> ELSE <<CHOOSE e \in here : TRUE>>)
            \o Pages(items, i + 1)

\* ------------------------------------------------------- connector trait
\* Variant of NewerThan that keeps a record dated exactly at `since`
\* (record_dt < since_dt as the test for dropping).
NewerOrEqual(date, since) == date = None \/ Unwrap(date) >= since

\* The `since` filter of PocketConnector::list_remote: a record whose date
\* parses is dropped when record_dt <= since_dt; one whose date does not
\* parse is kept.
NewerThan(date, since) == date = None \/ Unwrap(date) > since

\* The per-record loop of PocketConnector::list_remote over one page: the
\* records the `since` filter keeps, in the order of the page.
pocket_keep(recordings, since) ==
    SelectSeqIx(recordings,
                LAMBDA e : since = None \/ NewerThan(e.date, Unwrap(since)), 1)

\* PocketConnector::list_remote on a successful transport, facing a provider
\* that serves its whole collection: every record passes the per-record loop,
\* and the result is sorted.
list_remote(items, since) == SortDesc(pocket_keep(Pages(items, 1), since))

\* fireflies.rs: epoch_ms_to_iso divides by 1000 and formats whole seconds.
epoch_ms_to_iso(ms) == Some(Truncate(ms))

\* FirefliesConnector::list_remote on a successful transport: the record's
\* date is epoch milliseconds (0 when absent), a record with
\* date_ms <= since_ms is skipped, and the entry carries the date formatted
\* by epoch_ms_to_iso.
fireflies_keep(page, since) ==
    LET date_ms(e) == IF e.date = None THEN 0 ELSE Unwrap(e.date)
        kept == SelectSeqIx(page,
                            LAMBDA e : since = None \/ date_ms(e) > Unwrap(since), 1)
    IN [k \in 1..Len(kept) |->
          [id |-> kept[k].id, date |-> epoch_ms_to_iso(date_ms(kept[k]))]]

fireflies_list_remote(items, since) == SortDesc(fireflies_keep(Pages(items, 1), since))

\* Variant of ShortPage that also takes a full page for the last one.
ShortOrFullPage(len) == len <= PageSize

\* FirefliesConnector::list_remote: if (transcripts.len() as i64) < PAGE_SIZE { break; }
ShortPage(len) == len < PageSize

\* The Fireflies API answering transcripts(limit, skip): the records after the
\* first `skip` of the collection, at most `limit` of them.
transcripts_query(items, limit, skip) ==
    LET native == Pages(items, 1)
        to == IF skip + limit < Len(native) THEN skip + limit ELSE Len(native)
    IN SubSeq(native, skip + 1, to)

\* The Pocket API answering /public/recordings?page=p: the records of page p
\* in "data", and the number of pages in "meta.last_page" when it sends one.
recordings_page(served, meta, p) ==
    [data |-> IF p \in 1..Len(served) THEN served[p] ELSE << >>, meta |-> meta]

\* PocketConnector::list_remote: json.meta.last_page as i64, or 1.
LastPage(json) == IF json.meta = None THEN 1 ELSE Unwrap(json.meta)

\* --------------------------------------------------------- storage reads
get_sync_state(key) == sync_state[key]

transcript_exists(id) == \E t \in transcripts : t.id = id

\* Variant of get_local_ids_for_source without WHERE source = ?1.
get_local_ids_any_source(source) == {t.id : t \in transcripts}

get_local_ids_for_source(source) == {t.id : t \in {u \in transcripts : u.source = source}}

\* INSERT OR REPLACE INTO transcripts: the row with this id is replaced.
insert_transcript(rows, t) == {u \in rows : u.id # t.id} \cup {t}

delete_transcript(rows, id) == {u \in rows : u.id # id}

\* segments.transcript_id REFERENCES transcripts(id) ON DELETE CASCADE, with
\* PRAGMA foreign_keys = ON: the segments of a transcript row that is deleted,
\* or removed by REPLACE, are deleted with it.
cascade_segments(segs, id) ==
    [r \in {x \in DOMAIN segs : x.transcript_id # id} |-> segs[r]]

\* The loop "INSERT INTO segments ...": one row per segment, numbered from 0.
insert_segments(segs, id, texts) ==
    segs (+) SetToBag({[transcript_id |-> id, text |-> texts[k], segment_index |-> k - 1] :
                          k \in 1..Len(texts)})

\* Variant of upsert_segments in which the replaced row's segments stay.
upsert_segments_keep(segs, id, texts) == insert_segments(segs, id, texts)

\* Database::insert_transcript on the segments table: INSERT OR REPLACE INTO
\* transcripts removes the row with this id, and with it its segments; then
\* the segments of the new transcript are inserted.
upsert_segments(segs, id, texts) ==
    insert_segments(cascade_segments(segs, id), id, texts)

\* The columns of the transcripts row that insert_transcript writes for t.
transcript_row(t) == [id |-> t.id, source |-> t.source, title |-> t.title]

\* No insert_transcript or delete_transcript call was made directly for an id.
NotWritten == [op |-> "none", t |-> None, over |-> FALSE]

\* The transcripts the synchronization and ingest paths store are followed by
\* id and source; they carry no segments.
NoSegments == << >>

\* ------------------------------------------------------- ledger helpers
\* INSERT INTO sync_runs ... 'running'.  The field completions is not a column:
\* it counts the UPDATEs complete_sync_run has applied to the row.
start_sync_run(ledger, source, mode) ==
    Append(ledger, [source |-> source, mode |-> mode, status |-> "running",
                    found |-> 0, synced |-> 0, skipped |-> 0, errors |-> 0,
                    completions |-> 0])

\* UPDATE sync_runs SET ... WHERE id = run_id
complete_sync_run(ledger, run_id, found, synced, skipped, errors, status) ==
    [ledger EXCEPT ![run_id] = [@ EXCEPT !.found = found, !.synced = synced,
                                         !.skipped = skipped, !.errors = errors,
                                         !.status = status,
                                         !.completions = @ + 1]]

\* INSERT INTO sync_state ... ON CONFLICT(key) DO UPDATE SET value
set_sync_state(table, key, value) == [table EXCEPT ![key] = Some(value)]

\* --------------------------------------------------------- pure decisions
\* Variant of SelectMode with && in place of ||.
SelectModeBothNeeded(full, has_cursor) ==
    IF full /\ ~has_cursor THEN "initial" ELSE "incremental"

\* main.rs: let mode = if full || !has_cursor { Initial } else { Incremental }
SelectMode(full, has_cursor) ==
    IF full \/ ~has_cursor THEN "initial" ELSE "incremental"

\* run_sync: let status = if failed > 0 && synced == 0 { "failed" } else { "completed" }
SyncStatus(synced, failed) ==
    IF failed > 0 /\ synced = 0 THEN "failed" ELSE "completed"

\* run_audit, "s" arm: complete_sync_run(..., "completed")
AuditStatus(synced, errors) == "completed"

\* Variant of CursorFor that reads the stored cursor in every mode.
CursorAlways(mode, stored) == stored

\* run_sync: let cursor = match mode { Incremental => get_sync_state(..)?, _ => None }
CursorFor(mode, stored) == IF mode = "incremental" THEN stored ELSE None

\* Variant of CursorValue that takes the date of the newest listed record
\* (the head of the listing) when there is one.
CursorNewestListed(clock, remote) ==
    IF remote # << >> /\ Head(remote).date # None
    THEN Unwrap(Head(remote).date) ELSE Truncate(clock)

\* run_sync: let now = chrono::Utc::now().format(...); the value the cursor gets.
CursorValue(clock, remote) == Truncate(clock)

\* if !answer.is_empty() && !answer.eq_ignore_ascii_case("y") { cancelled }
Declined(answer) == answer # "" /\ answer # "y" /\ answer # "Y"

IdleRun ==
    [kind |-> "none", source |-> "pocket", mode |-> "initial", full |-> FALSE,
     dry_run |-> FALSE, declined |-> FALSE, cursor |-> None, since |-> << >>,
     remote |-> << >>,
     new_transcripts |-> << >>, already_local |-> 0, run_id |-> 0, i |-> 0,
     synced |-> 0, failed |-> 0, answer |-> "", local_total |-> 0,
     compared |-> FALSE, missing_locally |-> << >>, orphaned_locally |-> {},
     quiet |-> FALSE,
     pre_state |-> << >>, pre_rows |-> {},
     all |-> << >>, skip |-> 0, page |-> 1, requests |-> << >>,
     served |-> << >>, meta |-> None,
     tag |-> None, tag_id |-> None, log |-> << >>,
     record |-> None, fetched |-> None]

Init ==
    /\ now = 0
    /\ provider = [s \in Synced |-> {}]
    /\ transcripts = {}
    /\ sync_state = [k \in StateKeys |-> None]
    /\ sync_runs = << >>
    /\ pc = "idle"
    /\ run = IdleRun
    /\ result = "none"
    /\ calls = {}
    /\ outcomes = << >>
    /\ chg = [s \in Synced |-> FALSE]
    /\ prev_quiet = FALSE
    /\ segments = EmptyBag
    /\ tag_requests = [n \in TagNames |-> 0]
    /\ written = [id \in Ids |-> NotWritten]
    /\ tags = << >>
    /\ prev_clean = None
    /\ interrupted = None

\* ------------------------------------------------------------ environment
\* The clock is read only when the cursor is written, so a tick anywhere
\* earlier in the invocation is a tick just before that read.
ClockPcs == {"idle", "cursor", "empty_cursor"}

Tick ==
    /\ pc \in ClockPcs
    /\ now < MaxTime
    /\ now' = now + 1
    /\ UNCHANGED <<provider, transcripts, sync_state, sync_runs, pc, run, result,
                   calls, outcomes, chg, prev_quiet, segments, tag_requests, written, tags, prev_clean, interrupted>>

\* A recording appears at the provider, dated by the clock or sent without
\* a usable date; the provider numbers its recordings in the order it
\* creates them.
RemoteAdd(s, id, d) ==
    /\ pc = "idle"
    /\ d \in {None, Some(now)}
    /\ id = Cardinality(provider[s]) + 1
    /\ provider' = [provider EXCEPT ![s] = @ \cup {[id |-> id, date |-> d]}]
    /\ chg' = [chg EXCEPT ![s] = TRUE]
    /\ prev_quiet' = FALSE
    /\ prev_clean' = None
    /\ UNCHANGED <<now, transcripts, sync_state, sync_runs, pc, run, result,
                   calls, outcomes, segments, tag_requests, written, tags, interrupted>>

\* ingest_file (tss ingest): a transcript parsed from a file is stored under
\* the source label the file or the command line gives, unless its id exists.
Ingest(id, label) ==
    /\ pc = "idle"
    /\ ~transcript_exists(id)
    /\ transcripts' = insert_transcript(transcripts, [id |-> id, source |-> label])
    /\ segments' = upsert_segments(segments, id, NoSegments)
    /\ prev_clean' = None
    /\ UNCHANGED <<now, provider, sync_state, sync_runs, pc, run, result, calls,
                   outcomes, chg, prev_quiet, tag_requests, written, tags, interrupted>>

\* ------------------------------------------------------------ invocation
Return(r) ==
    /\ pc' = "returned"
    /\ result' = r

\* build_connector: only the Pocket connector takes the tag, and its
\* constructor resolves it: if let Some(ref name) = tag_name { resolve_tag_id(..)? }
NeedsTag(source, tag) == source = "pocket" /\ tag # None

\* main.rs, Commands::Sync, with the tag of --tag or default_tag, up to the
\* construction of the connector, and the head of run_sync / run_audit.  The
\* cursor is read after the construction, which writes no cursor.
Command(source, tag, audit, full, dry_run) ==
    /\ pc = "idle"
    /\ LET has_cursor == get_sync_state(CursorKey(source)) # None
           mode == IF audit THEN "audit" ELSE SelectMode(full, has_cursor)
       IN run' = [IdleRun EXCEPT
                    !.kind = IF audit THEN "audit" ELSE "sync",
                    !.source = source, !.mode = mode,
                    !.full = full /\ ~audit,
                    !.dry_run = dry_run,
                    !.cursor = CursorFor(mode, get_sync_state(CursorKey(source))),
                    !.quiet = ~chg[source],
                    !.pre_state = sync_state, !.pre_rows = transcripts,
                    !.tag = tag]
    /\ pc' = IF NeedsTag(source, tag) THEN "connect" ELSE "list"
    /\ result' = "none"
    /\ calls' = {}
    /\ outcomes' = << >>
    /\ UNCHANGED <<now, provider, transcripts, sync_state, sync_runs, chg, prev_quiet,
                   segments, tag_requests, written, tags, prev_clean, interrupted>>

\* The command without a tag.
Invoke(source, audit, full, dry_run) == Command(source, None, audit, full, dry_run)

\* The command with a tag; the count of tags-list requests is followed up to
\* MaxTagRequests.
InvokeTagged(source, tag_name, audit, full, dry_run) ==
    /\ tag_requests[tag_name] < MaxTagRequests
    /\ Command(source, Some(tag_name), audit, full, dry_run)

\* ------------------------------------------------- PocketConnector::new
\* The id Pocket has for a tag.
TagId(tag_name) == <<"id of", tag_name>>

\* Variant of ResolveCached in which a cached id is dropped and the tag
\* resolved afresh.
ResolveCachedExpire ==
    /\ pc = "connect"
    /\ get_sync_state(TagKey(Unwrap(run.tag))) # None
    /\ sync_state' = [sync_state EXCEPT ![TagKey(Unwrap(run.tag))] = None]
    /\ UNCHANGED <<now, provider, transcripts, sync_runs, pc, run, result, calls,
                   outcomes, chg, prev_quiet, segments, tag_requests, written, tags, prev_clean, interrupted>>

\* resolve_tag_id, "Check cache first": the cached id is returned, and the
\* connector is built with it.
ResolveCached ==
    /\ pc = "connect"
    /\ get_sync_state(TagKey(Unwrap(run.tag))) # None
    /\ run' = [run EXCEPT !.tag_id = get_sync_state(TagKey(Unwrap(run.tag)))]
    /\ pc' = "list"
    /\ UNCHANGED <<now, provider, transcripts, sync_state, sync_runs, result, calls,
                   outcomes, chg, prev_quiet, segments, tag_requests, written, tags, prev_clean, interrupted>>

\* What the tags-list request can come to: the tag is in the list with an id,
\* in the list without an id, not in the list, or the request fails
\* (transport, status, or an answer of another structure).
TagResponses == {"found", "no_id", "not_found", "error"}

\* Variant of TagMiss in which a tag that is not in the list leaves the
\* connector without a tag filter.
TagMissUnfiltered(response) ==
    IF response = "not_found" THEN "list"
    ELSE IF response = "found" THEN "cache_tag"
    ELSE "returned"

\* resolve_tag_id after the request: on to caching when the tag was found with
\* an id, else the error is returned through PocketConnector::new,
\* build_connector and the command.
TagMiss(response) == IF response = "found" THEN "cache_tag" ELSE "returned"

\* resolve_tag_id on a cache miss: "Fetch all tags" and the search of the list.
ResolveFetch(response) ==
    /\ pc = "connect"
    /\ get_sync_state(TagKey(Unwrap(run.tag))) = None
    /\ tag_requests' = [tag_requests EXCEPT ![Unwrap(run.tag)] = @ + 1]
    /\ run' = [run EXCEPT !.log = Append(@, <<"tags">>),
                          !.tag_id = IF response = "found"
                                     THEN Some(TagId(Unwrap(run.tag))) ELSE @]
    /\ pc' = TagMiss(response)
    /\ result' = IF TagMiss(response) # "returned" THEN result
                 ELSE IF response = "not_found" THEN "tag_not_found"
                 ELSE "tag_err"
    /\ UNCHANGED <<now, provider, transcripts, sync_state, sync_runs, calls,
                   outcomes, chg, prev_quiet, segments, written, tags, prev_clean, interrupted>>

\* Variant of CacheTag that returns the id without caching it.
CacheTagSkip ==
    /\ pc = "cache_tag"
    /\ pc' = "list"
    /\ UNCHANGED <<now, provider, transcripts, sync_state, sync_runs, run, result, calls,
                   outcomes, chg, prev_quiet, segments, tag_requests, written, tags, prev_clean, interrupted>>

\* resolve_tag_id, "Cache it": state::set_sync_state(conn, &cache_key, &id)?
CacheTag ==
    /\ pc = "cache_tag"
    /\ sync_state' = set_sync_state(sync_state, TagKey(Unwrap(run.tag)),
                                    Unwrap(run.tag_id))
    /\ calls' = calls \cup {"cache_tag"}
    /\ pc' = "list"
    /\ UNCHANGED <<now, provider, transcripts, sync_runs, run, result, outcomes, chg,
                   prev_quiet, segments, tag_requests, written, tags, prev_clean, interrupted>>

\* ------------------------------------------- resolve_tag_id on its own
\* str::eq_ignore_ascii_case compares the names with ASCII letters lowered.
ascii_lower(name) ==
    CASE name \in {"Work", "WORK", "work"} -> "work"
      [] name \in {"Home", "home"} -> "home"
      [] OTHER -> name

\* The tags Pocket can list: one spelled with a capital, one in capitals that
\* has no id field, one with another name.
TagUniverse ==
    {[name |-> "Work", id |-> Some(TagId("work"))],
     [name |-> "WORK", id |-> None],
     [name |-> "Home", id |-> Some(TagId("home"))]}

\* The tag lists followed: up to two of these tags, in either order.
TagLists ==
    {<< >>} \cup {<<a>> : a \in TagUniverse}
            \cup {p \in TagUniverse \X TagUniverse : p[1] # p[2]}

\* Variant of tag_search that compares the names as they are spelled.
tag_search_exact(list, tag_name) ==
    LET hits == {k \in 1..Len(list) : list[k].name = tag_name}
    IN IF hits = {} THEN "not_found"
       ELSE LET first == CHOOSE k \in hits : \A j \in hits : k <= j
            IN IF list[first].id = None THEN "no_id" ELSE "found"

\* resolve_tag_id, `for tag in tags`: the first tag whose name equals the
\* wanted one ignoring ASCII case decides; its id is returned, or the call
\* fails when it has none; with no such tag the call fails as not found.
tag_search(list, tag_name) ==
    LET hits == {k \in 1..Len(list) : ascii_lower(list[k].name) = ascii_lower(tag_name)}
    IN IF hits = {} THEN "not_found"
       ELSE LET first == CHOOSE k \in hits : \A j \in hits : k <= j
            IN IF list[first].id = None THEN "no_id" ELSE "found"

\* Pocket's tags are created, renamed, removed or reordered between two
\* invocations.
TagsChange(list) ==
    /\ pc = "idle"
    /\ list # tags
    /\ tags' = list
    /\ UNCHANGED <<now, provider, transcripts, sync_state, sync_runs, pc, run, result,
                   calls, outcomes, chg, prev_quiet, segments, tag_requests, written,
                   prev_clean, interrupted>>

\* resolve_tag_id on a cache miss, against the list Pocket has: the request
\* fails or is answered with that list.
ResolveListed ==
    /\ pc = "connect"
    /\ \E response \in {"error", tag_search(tags, Unwrap(run.tag))} :
          ResolveFetch(response)

\* Variant of AuditSince that bounds the audit listing by the stored cursor.
AuditSinceStored == get_sync_state(CursorKey(run.source))

\* run_audit: connector.list_remote(None)
AuditSince == None

\* Variant of ListFail in which the SyncRun is opened before the listing.
ListFailRecorded ==
    /\ pc = "list"
    /\ sync_runs' = start_sync_run(sync_runs, run.source, run.mode)
    /\ calls' = calls \cup {"start_run"}
    /\ Return("list_err")
    /\ UNCHANGED <<now, provider, transcripts, sync_state, run, outcomes, chg, prev_quiet,
                   segments, tag_requests, written, tags, prev_clean, interrupted>>

\* connector.list_remote(..)? fails: the invocation returns the error.
ListFail ==
    /\ pc = "list"
    /\ run' = [run EXCEPT !.log = Append(@, <<"recordings">>)]
    /\ Return("list_err")
    /\ UNCHANGED <<now, provider, transcripts, sync_state, sync_runs, calls,
                   outcomes, chg, prev_quiet, segments, tag_requests, written, tags, prev_clean, interrupted>>

\* let remote = connector.list_remote(cursor.as_deref())?; audit passes None.
ListOk ==
    /\ pc = "list"
    /\ LET since == IF run.kind = "audit" THEN AuditSince ELSE run.cursor
       IN run' = [run EXCEPT !.remote = list_remote(provider[run.source], since),
                             !.since = <<since>>,
                             !.log = Append(@, <<"recordings">>)]
    /\ pc' = IF run.kind = "audit" THEN "local_ids" ELSE "diff"
    /\ UNCHANGED <<now, provider, transcripts, sync_state, sync_runs, result, calls,
                   outcomes, chg, prev_quiet, segments, tag_requests, written, tags, prev_clean, interrupted>>

\* --------------------------------------------------------------- run_sync
\* db.transcript_exists(&rt.id)? fails inside the diff loop.
DiffFail ==
    /\ pc = "diff"
    /\ run.remote # << >>
    /\ Return("diff_err")
    /\ UNCHANGED <<now, provider, transcripts, sync_state, sync_runs, run, calls,
                   outcomes, chg, prev_quiet, segments, tag_requests, written, tags, prev_clean, interrupted>>

\* The diff loop: entries not in the store, in listing order.
DiffNew(remote) == SelectSeqIx(remote, LAMBDA rt : ~transcript_exists(rt.id), 1)

\* Variant of DiffLocal that counts every listed entry.
DiffLocalAll(remote) == Len(remote)

\* The diff loop's counter of entries that are in the store.
DiffLocal(remote) == Len(SelectSeqIx(remote, LAMBDA rt : transcript_exists(rt.id), 1))

\* Variant of AfterDiff that asks for confirmation in every mode.
AfterDiffAnyMode(new_count, dry_run, mode, yes) ==
    IF new_count = 0 THEN "empty_start"
    ELSE IF dry_run THEN "returned"
    ELSE IF ~yes THEN "confirm"
    ELSE "start"

\* Where run_sync goes after the diff: the empty branch is tested first, then
\* dry-run, then the confirmation of an initial sync.
AfterDiff(new_count, dry_run, mode, yes) ==
    IF new_count = 0 THEN "empty_start"
    ELSE IF dry_run THEN "returned"
    ELSE IF mode = "initial" /\ ~yes THEN "confirm"
    ELSE "start"

\* opts.yes is an option of the invocation; run_sync reads it here and
\* nowhere else, so it is drawn here.
Diff(yes) ==
    /\ pc = "diff"
    /\ LET new == DiffNew(run.remote)
           next == AfterDiff(Len(new), run.dry_run, run.mode, yes)
       IN /\ run' = [run EXCEPT !.new_transcripts = new,
                                !.already_local = DiffLocal(run.remote)]
          /\ pc' = next
          /\ result' = IF next = "returned" THEN "ok" ELSE result
    /\ UNCHANGED <<now, provider, transcripts, sync_state, sync_runs, calls,
                   outcomes, chg, prev_quiet, segments, tag_requests, written, tags, prev_clean, interrupted>>

\* new_count == 0: let run_id = state::start_sync_run(..)?
EmptyStart ==
    /\ pc = "empty_start"
    /\ sync_runs' = start_sync_run(sync_runs, run.source, run.mode)
    /\ run' = [run EXCEPT !.run_id = Len(sync_runs) + 1]
    /\ calls' = calls \cup {"start_run"}
    /\ pc' = "empty_complete"
    /\ UNCHANGED <<now, provider, transcripts, sync_state, result, outcomes, chg, prev_quiet,
                   segments, tag_requests, written, tags, prev_clean, interrupted>>

\* new_count == 0: complete_sync_run(run_id, remote_total, 0, already_local, 0, "completed")?
EmptyComplete ==
    /\ pc = "empty_complete"
    /\ sync_runs' = complete_sync_run(sync_runs, run.run_id, Len(run.remote), 0,
                                      run.already_local, 0, "completed")
    /\ calls' = calls \cup {"complete_run"}
    /\ IF run.mode \in {"initial", "incremental"}
       THEN pc' = "empty_cursor" /\ result' = result
       ELSE Return("ok")
    /\ UNCHANGED <<now, provider, transcripts, sync_state, run, outcomes, chg, prev_quiet,
                   segments, tag_requests, written, tags, prev_clean, interrupted>>

\* Variant of EmptyCursor that leaves the cursor alone when nothing was new.
EmptyKeepCursor ==
    /\ pc = "empty_cursor"
    /\ Return("ok")
    /\ UNCHANGED <<now, provider, transcripts, sync_state, sync_runs, run, calls,
                   outcomes, chg, prev_quiet, segments, tag_requests, written, tags, prev_clean, interrupted>>

\* new_count == 0: "Update cursor even if nothing new (we checked)".
EmptyCursor ==
    /\ pc = "empty_cursor"
    /\ sync_state' = set_sync_state(sync_state, CursorKey(run.source),
                                    CursorValue(now, run.remote))
    /\ calls' = calls \cup {"set_state"}
    /\ chg' = [chg EXCEPT ![run.source] = FALSE]
    /\ Return("ok")
    /\ UNCHANGED <<now, provider, transcripts, sync_runs, run, outcomes, prev_quiet,
                   segments, tag_requests, written, tags, prev_clean, interrupted>>

\* The confirmation prompt of an initial sync: one line read from stdin,
\* trimmed; the line is used for this decision only.
Confirm(answer) ==
    /\ pc = "confirm"
    /\ run' = [run EXCEPT !.declined = Declined(answer)]
    /\ IF Declined(answer)
       THEN Return("ok")
       ELSE pc' = "start" /\ result' = result
    /\ UNCHANGED <<now, provider, transcripts, sync_state, sync_runs, calls,
                   outcomes, chg, prev_quiet, segments, tag_requests, written, tags, prev_clean, interrupted>>

\* Variant of Start that writes the cursor before the loop.
StartWritesCursor ==
    /\ pc = "start"
    /\ sync_runs' = start_sync_run(sync_runs, run.source, run.mode)
    /\ run' = [run EXCEPT !.run_id = Len(sync_runs) + 1, !.i = 1]
    /\ sync_state' = set_sync_state(sync_state, CursorKey(run.source),
                                    CursorValue(now, run.remote))
    /\ calls' = calls \cup {"start_run"}
    /\ pc' = "fetch"
    /\ UNCHANGED <<now, provider, transcripts, result, outcomes, chg, prev_quiet,
                   segments, tag_requests, written, tags, prev_clean, interrupted>>

\* "Download and insert": let run_id = state::start_sync_run(..)?
Start ==
    /\ pc = "start"
    /\ sync_runs' = start_sync_run(sync_runs, run.source, run.mode)
    /\ run' = [run EXCEPT !.run_id = Len(sync_runs) + 1, !.i = 1]
    /\ calls' = calls \cup {"start_run"}
    /\ pc' = "fetch"
    /\ UNCHANGED <<now, provider, transcripts, sync_state, result, outcomes, chg, prev_quiet,
                   segments, tag_requests, written, tags, prev_clean, interrupted>>

\* One iteration of the loop over new_transcripts: fetch_one, then
\* insert_transcript; either failure is counted and the loop goes on.
ItemOutcomes == {"ok", "fetch_err", "store_err"}

\* What one iteration adds to the record of the invocation's calls:
\* connector.fetch_one(&rt.id) and how it ended, then, in its Ok arm,
\* db.insert_transcript(&transcript).
FetchLog(id, outcome) ==
    IF outcome = "fetch_err" THEN << <<"fetch", id, "err">> >>
    ELSE << <<"fetch", id, "ok">>, <<"upsert", id>> >>

\* Variant of FetchStep in which a failed item ends the loop.
FetchStepBreak(outcome) ==
    /\ pc = "fetch"
    /\ run.i <= Len(run.new_transcripts)
    /\ LET rt == run.new_transcripts[run.i]
       IN /\ transcripts' = IF outcome = "ok"
                            THEN insert_transcript(transcripts,
                                   [id |-> rt.id, source |-> run.source])
                            ELSE transcripts
          /\ segments' = IF outcome = "ok"
                         THEN upsert_segments(segments, rt.id, NoSegments)
                         ELSE segments
          /\ run' = [run EXCEPT !.i = @ + 1,
                                !.synced = IF outcome = "ok" THEN @ + 1 ELSE @,
                                !.failed = IF outcome = "ok" THEN @ ELSE @ + 1,
                                !.log = @ \o FetchLog(rt.id, outcome)]
          /\ calls' = IF outcome = "fetch_err" THEN calls ELSE calls \cup {"upsert"}
          /\ outcomes' = Append(outcomes, IF outcome = "ok" THEN "ok" ELSE "err")
          /\ pc' = IF outcome # "ok" \/ run.i = Len(run.new_transcripts)
                   THEN "complete" ELSE "fetch"
    /\ UNCHANGED <<now, provider, sync_state, sync_runs, result, chg, prev_quiet,
                   tag_requests, written, tags, prev_clean, interrupted>>

\* Variant of FetchStep in which an item whose fetch failed is tried again.
FetchStepRetry(outcome) ==
    /\ pc = "fetch"
    /\ run.i <= Len(run.new_transcripts)
    /\ LET rt == run.new_transcripts[run.i]
           next == IF outcome = "fetch_err" THEN run.i ELSE run.i + 1
       IN /\ transcripts' = IF outcome = "ok"
                            THEN insert_transcript(transcripts,
                                   [id |-> rt.id, source |-> run.source])
                            ELSE transcripts
          /\ segments' = IF outcome = "ok"
                         THEN upsert_segments(segments, rt.id, NoSegments)
                         ELSE segments
          /\ run' = [run EXCEPT !.i = next,
                                !.synced = IF outcome = "ok" THEN @ + 1 ELSE @,
                                !.failed = IF outcome = "ok" THEN @ ELSE @ + 1,
                                !.log = @ \o FetchLog(rt.id, outcome)]
          /\ calls' = IF outcome = "fetch_err" THEN calls ELSE calls \cup {"upsert"}
          /\ outcomes' = Append(outcomes, IF outcome = "ok" THEN "ok" ELSE "err")
          /\ pc' = IF next > Len(run.new_transcripts) THEN "complete" ELSE "fetch"
    /\ UNCHANGED <<now, provider, sync_state, sync_runs, result, chg, prev_quiet,
                   tag_requests, written, tags, prev_clean, interrupted>>

\* The loop body of run_sync.  The record fetched is taken to carry the id
\* that was listed; FetchOne and StoreFetched follow a record that does not.
FetchStep(outcome) ==
    /\ pc = "fetch"
    /\ run.i <= Len(run.new_transcripts)
    /\ LET rt == run.new_transcripts[run.i]
       IN /\ transcripts' = IF outcome = "ok"
                            THEN insert_transcript(transcripts,
                                   [id |-> rt.id, source |-> run.source])
                            ELSE transcripts
          /\ segments' = IF outcome = "ok"
                         THEN upsert_segments(segments, rt.id, NoSegments)
                         ELSE segments
          /\ run' = [run EXCEPT !.i = @ + 1,
                                !.synced = IF outcome = "ok" THEN @ + 1 ELSE @,
                                !.failed = IF outcome = "ok" THEN @ ELSE @ + 1,
                                !.log = @ \o FetchLog(rt.id, outcome)]
          /\ calls' = IF outcome = "fetch_err" THEN calls ELSE calls \cup {"upsert"}
          /\ outcomes' = Append(outcomes, IF outcome = "ok" THEN "ok" ELSE "err")
          /\ pc' = IF run.i = Len(run.new_transcripts) THEN "complete" ELSE "fetch"
    /\ UNCHANGED <<now, provider, sync_state, sync_runs, result, chg, prev_quiet,
                   tag_requests, written, tags, prev_clean, interrupted>>

\* Variant of Complete that returns to the caller's epilogue without closing
\* the SyncRun when no item was synced.
CompleteUnlessNothingSynced ==
    /\ pc = "complete"
    /\ sync_runs' = IF run.synced = 0 THEN sync_runs
                    ELSE complete_sync_run(sync_runs, run.run_id, Len(run.remote),
                                           run.synced, run.already_local, run.failed,
                                           SyncStatus(run.synced, run.failed))
    /\ calls' = IF run.synced = 0 THEN calls ELSE calls \cup {"complete_run"}
    /\ pc' = "cursor"
    /\ UNCHANGED <<now, provider, transcripts, sync_state, run, result, outcomes, chg, prev_quiet,
                   segments, tag_requests, written, tags, prev_clean, interrupted>>

\* Variant of Complete that writes the cursor where the SyncRun should be
\* completed.
CompleteWritesCursor ==
    /\ pc = "complete"
    /\ sync_state' = set_sync_state(sync_state, CursorKey(run.source),
                                    CursorValue(now, run.remote))
    /\ calls' = calls \cup {"set_state"}
    /\ pc' = "cursor"
    /\ UNCHANGED <<now, provider, transcripts, sync_runs, run, result, outcomes, chg,
                   prev_quiet, segments, tag_requests, written, tags, prev_clean, interrupted>>

\* complete_sync_run(run_id, remote_total, synced, already_local, failed, status)?
Complete ==
    /\ pc = "complete"
    /\ sync_runs' = complete_sync_run(sync_runs, run.run_id, Len(run.remote),
                                      run.synced, run.already_local, run.failed,
                                      SyncStatus(run.synced, run.failed))
    /\ calls' = calls \cup {"complete_run"}
    /\ pc' = "cursor"
    /\ UNCHANGED <<now, provider, transcripts, sync_state, run, result, outcomes, chg, prev_quiet,
                   segments, tag_requests, written, tags, prev_clean, interrupted>>

\* "Update cursor": set_sync_state(key, now)?; then Ok(SyncReport).
Cursor ==
    /\ pc = "cursor"
    /\ sync_state' = set_sync_state(sync_state, CursorKey(run.source),
                                    CursorValue(now, run.remote))
    /\ calls' = calls \cup {"set_state"}
    /\ chg' = [chg EXCEPT ![run.source] = FALSE]
    /\ Return("ok")
    /\ UNCHANGED <<now, provider, transcripts, sync_runs, run, outcomes, prev_quiet,
                   segments, tag_requests, written, tags, prev_clean, interrupted>>

\* -------------------------------------------------------------- run_audit
\* Missing locally: listed entries whose id is not stored under the source.
MissingLocally(remote, local_ids) ==
    SelectSeqIx(remote, LAMBDA r : r.id \notin local_ids, 1)

\* Orphaned locally: ids stored under the source and not listed.
OrphanedLocally(remote, local_ids) ==
    {id \in local_ids : id \notin {r.id : r \in Range(remote)}}

\* Where run_audit goes after the comparison: the no-discrepancy branch is
\* tested first, then dry-run, then the prompt.
AfterCompare(missing, orphaned, dry_run) ==
    IF missing = << >> /\ orphaned = {} THEN "nodisc_start"
    ELSE IF dry_run THEN "returned"
    ELSE "prompt"

Compare ==
    /\ pc = "local_ids"
    /\ LET local_ids == get_local_ids_for_source(run.source)
           missing == MissingLocally(run.remote, local_ids)
           orphaned == OrphanedLocally(run.remote, local_ids)
           next == AfterCompare(missing, orphaned, run.dry_run)
       IN /\ run' = [run EXCEPT !.compared = TRUE,
                                !.local_total = Cardinality(local_ids),
                                !.missing_locally = missing,
                                !.orphaned_locally = orphaned]
          /\ pc' = next
          /\ result' = IF next = "returned" THEN "ok" ELSE result
    /\ UNCHANGED <<now, provider, transcripts, sync_state, sync_runs, calls,
                   outcomes, chg, prev_quiet, segments, tag_requests, written, tags, prev_clean, interrupted>>

\* Variant of NoDiscStart in which an audit without discrepancies returns
\* without recording a SyncRun.
NoDiscReturn ==
    /\ pc = "nodisc_start"
    /\ Return("ok")
    /\ UNCHANGED <<now, provider, transcripts, sync_state, sync_runs, run, calls,
                   outcomes, chg, prev_quiet, segments, tag_requests, written, tags, prev_clean, interrupted>>

\* No discrepancies: let run_id = state::start_sync_run(.., "audit")?
NoDiscStart ==
    /\ pc = "nodisc_start"
    /\ sync_runs' = start_sync_run(sync_runs, run.source, "audit")
    /\ run' = [run EXCEPT !.run_id = Len(sync_runs) + 1]
    /\ calls' = calls \cup {"start_run"}
    /\ pc' = "nodisc_complete"
    /\ UNCHANGED <<now, provider, transcripts, sync_state, result, outcomes, chg, prev_quiet,
                   segments, tag_requests, written, tags, prev_clean, interrupted>>

\* No discrepancies: complete_sync_run(run_id, remote_total, 0, local_total, 0, "completed")?
NoDiscComplete ==
    /\ pc = "nodisc_complete"
    /\ sync_runs' = complete_sync_run(sync_runs, run.run_id, Len(run.remote), 0,
                                      run.local_total, 0, "completed")
    /\ calls' = calls \cup {"complete_run"}
    /\ Return("ok")
    /\ UNCHANGED <<now, provider, transcripts, sync_state, run, outcomes, chg, prev_quiet,
                   segments, tag_requests, written, tags, prev_clean, interrupted>>

\* The disposition prompt: one line read from stdin, trimmed and lowercased.
Answers == {"s", "d", "j", "n"}

Prompt(answer) ==
    /\ pc = "prompt"
    /\ run' = [run EXCEPT !.answer = answer]
    /\ pc' = "audit_start"
    /\ UNCHANGED <<now, provider, transcripts, sync_state, sync_runs, result, calls,
                   outcomes, chg, prev_quiet, segments, tag_requests, written, tags, prev_clean, interrupted>>

\* Variant of Disposition in which the export answer also takes the sync arm.
DispositionExportSyncs(answer, missing, orphaned) ==
    IF answer \in {"s", "j"} /\ missing # << >> THEN "audit_fetch"
    ELSE IF answer = "d" /\ orphaned # {} THEN "audit_delete"
    ELSE "audit_complete"

\* match answer.as_str(): the arm taken.
Disposition(answer, missing, orphaned) ==
    IF answer = "s" /\ missing # << >> THEN "audit_fetch"
    ELSE IF answer = "d" /\ orphaned # {} THEN "audit_delete"
    ELSE "audit_complete"

\* let run_id = state::start_sync_run(.., "audit")?; then the match.
AuditStart ==
    /\ pc = "audit_start"
    /\ sync_runs' = start_sync_run(sync_runs, run.source, "audit")
    /\ run' = [run EXCEPT !.run_id = Len(sync_runs) + 1, !.i = 1]
    /\ calls' = calls \cup {"start_run"}
    /\ pc' = Disposition(run.answer, run.missing_locally, run.orphaned_locally)
    /\ UNCHANGED <<now, provider, transcripts, sync_state, result, outcomes, chg, prev_quiet,
                   segments, tag_requests, written, tags, prev_clean, interrupted>>

\* Variant of AuditFetchStep in which the "s" arm, after its last item, also
\* deletes the orphaned transcripts.
AuditFetchAndPrune(outcome) ==
    /\ pc = "audit_fetch"
    /\ run.i <= Len(run.missing_locally)
    /\ LET rt == run.missing_locally[run.i]
           last == run.i = Len(run.missing_locally)
           stored == IF outcome = "ok"
                     THEN insert_transcript(transcripts,
                            [id |-> rt.id, source |-> run.source])
                     ELSE transcripts
       IN /\ transcripts' = IF last
                            THEN {t \in stored : t.id \notin run.orphaned_locally}
                            ELSE stored
          /\ segments' = IF outcome = "ok"
                         THEN upsert_segments(segments, rt.id, NoSegments)
                         ELSE segments
          /\ run' = [run EXCEPT !.i = @ + 1,
                                !.synced = IF outcome = "ok" THEN @ + 1 ELSE @,
                                !.failed = IF outcome = "ok" THEN @ ELSE @ + 1,
                                !.log = @ \o FetchLog(rt.id, outcome)]
          /\ calls' = calls \cup (IF outcome = "fetch_err" THEN {} ELSE {"upsert"})
                            \cup (IF last /\ run.orphaned_locally # {}
                                  THEN {"delete"} ELSE {})
          /\ outcomes' = Append(outcomes, IF outcome = "ok" THEN "ok" ELSE "err")
          /\ pc' = IF last THEN "audit_complete" ELSE "audit_fetch"
    /\ UNCHANGED <<now, provider, sync_state, sync_runs, result, chg, prev_quiet,
                   tag_requests, written, tags, prev_clean, interrupted>>

\* Variant of AuditFetchStep in which a failed item ends the loop.
AuditFetchStepBreak(outcome) ==
    /\ pc = "audit_fetch"
    /\ run.i <= Len(run.missing_locally)
    /\ LET rt == run.missing_locally[run.i]
       IN /\ transcripts' = IF outcome = "ok"
                            THEN insert_transcript(transcripts,
                                   [id |-> rt.id, source |-> run.source])
                            ELSE transcripts
          /\ segments' = IF outcome = "ok"
                         THEN upsert_segments(segments, rt.id, NoSegments)
                         ELSE segments
          /\ run' = [run EXCEPT !.i = @ + 1,
                                !.synced = IF outcome = "ok" THEN @ + 1 ELSE @,
                                !.failed = IF outcome = "ok" THEN @ ELSE @ + 1,
                                !.log = @ \o FetchLog(rt.id, outcome)]
          /\ calls' = IF outcome = "fetch_err" THEN calls ELSE calls \cup {"upsert"}
          /\ outcomes' = Append(outcomes, IF outcome = "ok" THEN "ok" ELSE "err")
          /\ pc' = IF outcome # "ok" \/ run.i = Len(run.missing_locally)
                   THEN "audit_complete" ELSE "audit_fetch"
    /\ UNCHANGED <<now, provider, sync_state, sync_runs, result, chg, prev_quiet,
                   tag_requests, written, tags, prev_clean, interrupted>>

\* "s" arm: one iteration of the loop over missing_locally.
AuditFetchStep(outcome) ==
    /\ pc = "audit_fetch"
    /\ run.i <= Len(run.missing_locally)
    /\ LET rt == run.missing_locally[run.i]
       IN /\ transcripts' = IF outcome = "ok"
                            THEN insert_transcript(transcripts,
                                   [id |-> rt.id, source |-> run.source])
                            ELSE transcripts
          /\ segments' = IF outcome = "ok"
                         THEN upsert_segments(segments, rt.id, NoSegments)
                         ELSE segments
          /\ run' = [run EXCEPT !.i = @ + 1,
                                !.synced = IF outcome = "ok" THEN @ + 1 ELSE @,
                                !.failed = IF outcome = "ok" THEN @ ELSE @ + 1,
                                !.log = @ \o FetchLog(rt.id, outcome)]
          /\ calls' = IF outcome = "fetch_err" THEN calls ELSE calls \cup {"upsert"}
          /\ outcomes' = Append(outcomes, IF outcome = "ok" THEN "ok" ELSE "err")
          /\ pc' = IF run.i = Len(run.missing_locally) THEN "audit_complete"
                   ELSE "audit_fetch"
    /\ UNCHANGED <<now, provider, sync_state, sync_runs, result, chg, prev_quiet,
                   tag_requests, written, tags, prev_clean, interrupted>>

\* "d" arm: one iteration of the loop over orphaned_locally (a Vec collected
\* from a HashSet: any order); a failed delete is logged and the loop goes on.
DeleteOutcomes == {"ok", "delete_err"}

AuditDeleteStep(id, outcome) ==
    /\ pc = "audit_delete"
    /\ id \in run.orphaned_locally
    /\ id \notin {o[1] : o \in Range(outcomes)}
    /\ transcripts' = IF outcome = "ok" THEN delete_transcript(transcripts, id)
                      ELSE transcripts
    /\ segments' = IF outcome = "ok" THEN cascade_segments(segments, id) ELSE segments
    /\ calls' = calls \cup {"delete"}
    /\ outcomes' = Append(outcomes, <<id, outcome>>)
    /\ pc' = IF Len(outcomes) + 1 = Cardinality(run.orphaned_locally)
             THEN "audit_complete" ELSE "audit_delete"
    /\ UNCHANGED <<now, provider, sync_state, sync_runs, run, result, chg, prev_quiet,
                   tag_requests, written, tags, prev_clean, interrupted>>

\* Variant of AuditComplete that sets the cursor as run_sync does at its end.
AuditCompleteWritesCursor ==
    /\ pc = "audit_complete"
    /\ sync_runs' = complete_sync_run(sync_runs, run.run_id, Len(run.remote),
                                      run.synced, run.local_total, run.failed,
                                      AuditStatus(run.synced, run.failed))
    /\ sync_state' = set_sync_state(sync_state, CursorKey(run.source),
                                    CursorValue(now, run.remote))
    /\ calls' = calls \cup {"complete_run"}
    /\ Return("ok")
    /\ UNCHANGED <<now, provider, transcripts, run, outcomes, chg, prev_quiet,
                   segments, tag_requests, written, tags, prev_clean, interrupted>>

\* Every arm ends with complete_sync_run(run_id, remote_total, synced,
\* local_total, errors, "completed")?; synced and errors are 0 outside "s".
AuditComplete ==
    /\ pc = "audit_complete"
    /\ sync_runs' = complete_sync_run(sync_runs, run.run_id, Len(run.remote),
                                      run.synced, run.local_total, run.failed,
                                      AuditStatus(run.synced, run.failed))
    /\ calls' = calls \cup {"complete_run"}
    /\ Return("ok")
    /\ UNCHANGED <<now, provider, transcripts, sync_state, run, outcomes, chg, prev_quiet,
                   segments, tag_requests, written, tags, prev_clean, interrupted>>

\* ----------------------------------------------------- fatal failures
\* Positions whose next statement is a storage call followed by `?`.
StoragePcs == {"local_ids", "empty_start", "empty_complete", "empty_cursor",
               "start", "complete", "cursor", "nodisc_start", "nodisc_complete",
               "audit_start", "audit_complete", "connect", "cache_tag"}

StorageFail ==
    /\ pc \in StoragePcs
    /\ Return("storage_err")
    /\ UNCHANGED <<now, provider, transcripts, sync_state, sync_runs, run, calls,
                   outcomes, chg, prev_quiet, segments, tag_requests, written, tags, prev_clean, interrupted>>

\* std::io::stdin().read_line(&mut answer)? fails at either prompt.
StdinFail ==
    /\ pc \in {"confirm", "prompt"}
    /\ Return("io_err")
    /\ UNCHANGED <<now, provider, transcripts, sync_state, sync_runs, run, calls,
                   outcomes, chg, prev_quiet, segments, tag_requests, written, tags, prev_clean, interrupted>>

\* The process exits; the next invocation starts from fresh locals.  The rows
\* the invocation inserted into sync_runs stay in the table and are followed
\* no further: the engine never reads the table, and complete_sync_run
\* updates only the row whose id the same invocation got from start_sync_run.
\* The invocation that returns was an initial run_sync, not a dry run, whose
\* list_remote had no bound, and it returned Ok leaving a SyncRun completed
\* with errors = 0.
CleanInitial ==
    /\ run.kind = "sync" /\ run.mode = "initial" /\ ~run.dry_run
    /\ run.since = <<None>>
    /\ result = "ok"
    /\ \E k \in 1..Len(sync_runs) :
          /\ sync_runs[k].mode = "initial"
          /\ sync_runs[k].status = "completed"
          /\ sync_runs[k].errors = 0

Exit ==
    /\ pc = "returned"
    /\ pc' = "idle"
    /\ sync_runs' = << >>
    /\ run' = IdleRun
    /\ result' = "none"
    /\ calls' = {}
    /\ outcomes' = << >>
    /\ prev_quiet' = (run.kind = "sync" /\ run.mode = "incremental" /\ run.quiet
                      /\ ~run.dry_run /\ result = "ok")
    /\ prev_clean' = IF CleanInitial THEN Some(run.source) ELSE None
    /\ interrupted' = None
    /\ UNCHANGED <<now, provider, transcripts, sync_state, chg, segments, tag_requests, written, tags>>

Next ==
    \/ Tick
    \/ \E s \in Synced, id \in Ids, d \in Dates : RemoteAdd(s, id, d)
    \/ \E id \in Ids, label \in Sources : Ingest(id, label)
    \/ \E s \in Synced, audit \in BOOLEAN, full \in BOOLEAN, dry_run \in BOOLEAN :
          Invoke(s, audit, full, dry_run)
    \/ ListFail
    \/ ListOk
    \/ DiffFail
    \/ \E yes \in BOOLEAN : Diff(yes)
    \/ EmptyStart
    \/ EmptyComplete
    \/ EmptyCursor
    \/ \E answer \in {"", "y", "n"} : Confirm(answer)
    \/ Start
    \/ \E outcome \in ItemOutcomes : FetchStep(outcome)
    \/ Complete
    \/ Cursor
    \/ Compare
    \/ NoDiscStart
    \/ NoDiscComplete
    \/ \E answer \in Answers : Prompt(answer)
    \/ AuditStart
    \/ \E outcome \in ItemOutcomes : AuditFetchStep(outcome)
    \/ \E id \in Ids, outcome \in DeleteOutcomes : AuditDeleteStep(id, outcome)
    \/ AuditComplete
    \/ StorageFail
    \/ StdinFail
    \/ Exit

Spec == Init /\ [][Next]_vars

\* --------------------------------------- the engine beside another source
\* The database after a sync of Fireflies at the first instant: its cursor is
\* set.  The command is then run for Pocket.
FrameInit ==
    /\ now = 0
    /\ provider = [s \in Synced |-> {}]
    /\ transcripts = {}
    /\ sync_state = [k \in StateKeys |->
                       IF k = CursorKey("fireflies") THEN Some(CursorValue(0, << >>))
                       ELSE None]
    /\ sync_runs = << >>
    /\ pc = "idle"
    /\ run = IdleRun
    /\ result = "none"
    /\ calls = {}
    /\ outcomes = << >>
    /\ chg = [s \in Synced |-> FALSE]
    /\ prev_quiet = FALSE
    /\ segments = EmptyBag
    /\ tag_requests = [n \in TagNames |-> 0]
    /\ written = [id \in Ids |-> NotWritten]
    /\ tags = << >>
    /\ prev_clean = None
    /\ interrupted = None

FrameSpec == FrameInit /\ [][Next]_vars

\* ------------------------------------------------- run_sync interrupted
\* The positions of run_sync before its last step, the write of the cursor.
BeforeFinalize == {"list", "diff", "confirm", "start", "fetch", "complete",
                   "cursor", "empty_start", "empty_complete", "empty_cursor"}

\* The process is killed while run_sync is at one of these positions: its
\* locals are lost, what it committed to the database stays.  Each statement
\* of run_sync commits on its own (insert_transcript in one transaction), so
\* the database is as the last completed step left it.  One interruption is
\* followed until an invocation returns.
Crash ==
    /\ run.kind = "sync"
    /\ pc \in BeforeFinalize
    /\ interrupted = None
    /\ interrupted' = Some([source |-> run.source, mode |-> run.mode, full |-> run.full,
                            remote |-> run.remote,
                            stored |-> {t.id : t \in transcripts \ run.pre_rows},
                            cursor |-> run.pre_state[CursorKey(run.source)]])
    /\ pc' = "idle"
    /\ run' = IdleRun
    /\ sync_runs' = << >>
    /\ result' = "none"
    /\ calls' = {}
    /\ outcomes' = << >>
    /\ prev_quiet' = FALSE
    /\ prev_clean' = None
    /\ UNCHANGED <<now, provider, transcripts, sync_state, chg, segments, tag_requests,
                   written, tags>>

\* run_sync invocations, any of which may be killed.  The clock stands still:
\* recordings are dated with the one instant or undated.
CrashNext ==
    \/ \E s \in Synced, id \in Ids, d \in Dates : RemoteAdd(s, id, d)
    \/ \E id \in Ids, label \in Sources : Ingest(id, label)
    \/ \E s \in Synced, full \in BOOLEAN, dry_run \in BOOLEAN :
          Invoke(s, FALSE, full, dry_run)
    \/ ListFail
    \/ ListOk
    \/ DiffFail
    \/ \E yes \in BOOLEAN : Diff(yes)
    \/ EmptyStart
    \/ EmptyComplete
    \/ EmptyCursor
    \/ \E answer \in {"", "y", "n"} : Confirm(answer)
    \/ Start
    \/ \E outcome \in ItemOutcomes : FetchStep(outcome)
    \/ Complete
    \/ Cursor
    \/ StorageFail
    \/ StdinFail
    \/ Exit
    \/ Crash

CrashSpec == Init /\ [][CrashNext]_vars

\* ------------------------------------------- the command given a tag
\* Invocations of the command for Pocket with a tag, one after another on
\* one database; the clock is left out, recordings appear undated.
ConnectNext ==
    \/ \E s \in Synced, id \in Ids : RemoteAdd(s, id, None)
    \/ \E id \in Ids : Ingest(id, "pocket")
    \/ \E s \in Synced, n \in TagNames, audit \in BOOLEAN, full \in BOOLEAN,
          dry_run \in BOOLEAN : InvokeTagged(s, n, audit, full, dry_run)
    \/ ResolveCached
    \/ \E response \in TagResponses : ResolveFetch(response)
    \/ CacheTag
    \/ ListFail
    \/ ListOk
    \/ DiffFail
    \/ \E yes \in BOOLEAN : Diff(yes)
    \/ EmptyStart
    \/ EmptyComplete
    \/ EmptyCursor
    \/ \E answer \in {"", "y", "n"} : Confirm(answer)
    \/ Start
    \/ \E outcome \in ItemOutcomes : FetchStep(outcome)
    \/ Complete
    \/ Cursor
    \/ Compare
    \/ NoDiscStart
    \/ NoDiscComplete
    \/ \E answer \in Answers : Prompt(answer)
    \/ AuditStart
    \/ \E outcome \in ItemOutcomes : AuditFetchStep(outcome)
    \/ \E id \in Ids, outcome \in DeleteOutcomes : AuditDeleteStep(id, outcome)
    \/ AuditComplete
    \/ StorageFail
    \/ StdinFail
    \/ Exit

ConnectSpec == Init /\ [][ConnectNext]_vars

\* Constructions of the Pocket connector with a tag, one after another on one
\* database, while Pocket's tag list changes; of what the command does with
\* the connector only the failure of its first request is followed.
TagNext ==
    \/ \E list \in TagLists : TagsChange(list)
    \/ \E n \in TagNames : InvokeTagged("pocket", n, FALSE, FALSE, FALSE)
    \/ ResolveCached
    \/ ResolveListed
    \/ CacheTag
    \/ ListFail
    \/ StorageFail
    \/ Exit

TagSpec == Init /\ [][TagNext]_vars

\* ------------------------------------------------- the store on its own
\* The ids written in the store on its own: two, to have one id rewritten
\* while another is stored.
StoreIds == {1, 2}

\* The NewTranscript values given to insert_transcript: an id, a source, a
\* title that stands for the version of the content, and up to MaxSegs
\* segments with that version's text.
NewTranscripts ==
    {[id |-> i, source |-> s, title |-> v, segments |-> [k \in 1..n |-> v]] :
        i \in StoreIds, s \in Sources, v \in 1..MaxVersions, n \in 0..MaxSegs}

\* Database::insert_transcript(t), committed: the transcripts row and the
\* segments are written in one transaction.
StoreUpsert(t) ==
    /\ transcripts' = insert_transcript(transcripts, transcript_row(t))
    /\ segments' = upsert_segments(segments, t.id, t.segments)
    /\ written' = [written EXCEPT ![t.id] =
                      [op |-> "upsert", t |-> Some(t),
                       over |-> transcript_exists(t.id) /\ written[t.id].t # Some(t)]]
    /\ UNCHANGED <<now, provider, sync_state, sync_runs, pc, run, result, calls,
                   outcomes, chg, prev_quiet, tag_requests, tags, prev_clean, interrupted>>

\* Database::delete_transcript(id): DELETE FROM transcripts WHERE id = ?1.
StoreDelete(id) ==
    /\ transcripts' = delete_transcript(transcripts, id)
    /\ segments' = cascade_segments(segments, id)
    /\ written' = [written EXCEPT ![id] = [op |-> "delete", t |-> None, over |-> FALSE]]
    /\ UNCHANGED <<now, provider, sync_state, sync_runs, pc, run, result, calls,
                   outcomes, chg, prev_quiet, tag_requests, tags, prev_clean, interrupted>>

StoreNext ==
    \/ \E t \in NewTranscripts : StoreUpsert(t)
    \/ \E id \in StoreIds : StoreDelete(id)

StoreSpec == Init /\ [][StoreNext]_vars

\* ------------------------------------------------ list_remote on its own
\* The remote collections of up to MaxIds records, each with one of the dates.
Collections(dates) ==
    UNION {{{[id |-> i, date |-> f[i]] : i \in 1..n} : f \in [1..n -> dates]} : n \in 0..MaxIds}

\* The ways a Pocket server can serve a sequence of records as n pages of at
\* most PageSize records each; a page may be short or empty.
RECURSIVE Cuts(_, _)
Cuts(s, n) ==
    IF n = 0 THEN (IF s = << >> THEN {<< >>} ELSE {})
    ELSE LET most == IF Len(s) < PageSize THEN Len(s) ELSE PageSize
         IN UNION {{<<SubSeq(s, 1, k)>> \o rest :
                       rest \in Cuts(SubSeq(s, k + 1, Len(s)), n - 1)} : k \in 0..most}

\* A connector of either source, facing any collection, about to be asked
\* for a listing with any since-bound or none.  run.all, run.skip and
\* run.page are the locals of list_remote, run.requests the skip or page of
\* the requests it has sent; run.served and run.meta are the Pocket server's:
\* the pages it answers with and the last_page it reports.
ListStart ==
    /\ now = 0
    /\ transcripts = {}
    /\ sync_state = [k \in StateKeys |-> None]
    /\ sync_runs = << >>
    /\ pc = "list"
    /\ result = "none"
    /\ calls = {}
    /\ outcomes = << >>
    /\ chg = [s \in Synced |-> FALSE]
    /\ prev_quiet = FALSE
    /\ segments = EmptyBag
    /\ tag_requests = [n \in TagNames |-> 0]
    /\ written = [id \in Ids |-> NotWritten]
    /\ tags = << >>
    /\ prev_clean = None
    /\ interrupted = None

\* ------------------------------------------------ fetch_one on its own
\* A character, by the number of bytes of its UTF-8 encoding.
Chars == {1, 2}

\* The texts of up to n characters.
Texts(n) == UNION {[1..k -> Chars] : k \in 0..n}

\* String::len(): the length in bytes.
RECURSIVE byte_len(_)
byte_len(text) == IF text = << >> THEN 0 ELSE Head(text) + byte_len(Tail(text))

\* str::is_char_boundary: byte offset b falls between two characters.
is_char_boundary(text, b) ==
    \E k \in 0..Len(text) : byte_len(SubSeq(text, 1, k)) = b

\* &text[..b] where b is a character boundary.
byte_slice(text, b) ==
    SubSeq(text, 1, CHOOSE k \in 0..Len(text) : byte_len(SubSeq(text, 1, k)) = b)

\* "Cap at 100K chars": if raw_text.len() > 100_000 { raw_text[..100_000] };
\* RawCap stands for 100_000.  The slice panics when the offset is not a
\* character boundary: None is the panic.
cap_raw_text(text) ==
    IF byte_len(text) > RawCap
    THEN (IF is_char_boundary(text, RawCap) THEN Some(byte_slice(text, RawCap)) ELSE None)
    ELSE Some(text)

\* format!("{}: {}", speaker, text) for a segment; the speaker and ": " are
\* held as two one-byte characters.
raw_line(text) == <<1, 1>> \o text

\* raw_lines.join("\n")
RECURSIVE join_lines(_)
join_lines(texts) ==
    IF texts = << >> THEN << >>
    ELSE IF Len(texts) = 1 THEN raw_line(texts[1])
    ELSE raw_line(texts[1]) \o <<1>> \o join_lines(Tail(texts))

\* The segment lists a record can carry: up to MaxSegs texts of one character.
SegLists == UNION {[1..k -> {<<1>>, <<2>>}] : k \in 0..MaxSegs}

\* The records a provider can answer a request for recording `id` with: the
\* id field is there or not, transcript.text is there or not, and there are
\* some segments.
Records(id) ==
    {[id |-> i, text |-> x, segments |-> g] :
        i \in {None, Some(id)},
        x \in {None} \cup {Some(t) : t \in Texts(MaxChars)},
        g \in SegLists}

\* uuid::Uuid::new_v4(): an id no recording has (the k-th one drawn).
Uuid(k) == MaxIds + k

\* The segments of a converted record: enumerate(), segment_index: i as i64.
NewSegments(texts) ==
    [k \in 1..Len(texts) |-> [text |-> texts[k], segment_index |-> k - 1]]

\* PocketRecording::into_new_transcript: id of the record or a fresh uuid;
\* raw_text from transcript.text, else the joined segment lines, capped; all
\* segments.  None when the cap panics.
pocket_into_new_transcript(rec, fresh) ==
    LET raw == IF rec.text # None THEN Unwrap(rec.text) ELSE join_lines(rec.segments)
        capped == cap_raw_text(raw)
    IN IF capped = None THEN None
       ELSE Some([id |-> IF rec.id # None THEN Unwrap(rec.id) ELSE fresh,
                  source |-> "pocket",
                  raw_text |-> Unwrap(capped),
                  segments |-> NewSegments(rec.segments)])

\* FirefliesTranscript::into_new_transcript: the id of the record; raw_text is
\* the joined sentence lines, without a cap.
fireflies_into_new_transcript(rec) ==
    Some([id |-> Unwrap(rec.id), source |-> "fireflies",
          raw_text |-> join_lines(rec.segments),
          segments |-> NewSegments(rec.segments)])

\* The listings whose entries are fetched: one or two new recordings.
FetchListings == {<<[id |-> 1, date |-> None]>>,
                  <<[id |-> 1, date |-> None], [id |-> 2, date |-> None]>>}

\* run_sync at the head of its loop over an empty store, for either source.
FetchInit ==
    /\ now = 0
    /\ provider = [s \in Synced |-> {}]
    /\ transcripts = {}
    /\ sync_state = [k \in StateKeys |-> None]
    /\ sync_runs = << >>
    /\ pc = "fetch"
    /\ result = "none"
    /\ calls = {}
    /\ outcomes = << >>
    /\ chg = [s \in Synced |-> FALSE]
    /\ prev_quiet = FALSE
    /\ segments = EmptyBag
    /\ tag_requests = [n \in TagNames |-> 0]
    /\ written = [id \in Ids |-> NotWritten]
    /\ tags = << >>
    /\ prev_clean = None
    /\ interrupted = None
    /\ \E source \in Sources, listing \in FetchListings :
          run = [IdleRun EXCEPT !.kind = "sync", !.source = source,
                                !.remote = listing, !.new_transcripts = listing,
                                !.i = 1, !.since = <<None>>]

\* connector.fetch_one(&rt.id) answered with a record: serde parses it (the
\* Fireflies record must have its id, a String) and into_new_transcript
\* converts it.  A panic ends the process.
FetchOne ==
    /\ pc = "fetch"
    /\ run.i <= Len(run.new_transcripts)
    /\ \E rec \in Records(run.new_transcripts[run.i].id) :
          LET parsed == run.source = "pocket" \/ rec.id # None
              t == IF run.source = "pocket"
                   THEN pocket_into_new_transcript(rec, Uuid(run.i))
                   ELSE IF parsed THEN fireflies_into_new_transcript(rec) ELSE None
          IN /\ run' = [run EXCEPT !.record = IF parsed THEN Some(rec) ELSE None,
                                   !.fetched = t,
                                   !.i = IF parsed THEN @ ELSE @ + 1,
                                   !.failed = IF parsed THEN @ ELSE @ + 1]
             /\ outcomes' = IF parsed THEN outcomes ELSE Append(outcomes, "err")
             /\ pc' = IF ~parsed
                      THEN (IF run.i = Len(run.new_transcripts) THEN "complete" ELSE "fetch")
                      ELSE IF t = None THEN "panicked" ELSE "store"
    /\ UNCHANGED <<now, provider, transcripts, sync_state, sync_runs, result, calls,
                   chg, prev_quiet, segments, tag_requests, written, tags, prev_clean, interrupted>>

\* db.insert_transcript(&transcript) in the Ok arm of the fetch: committed
\* (synced += 1) or failed and rolled back (errors += 1).
StoreFetched(ok) ==
    /\ pc = "store"
    /\ LET t == Unwrap(run.fetched)
       IN /\ transcripts' = IF ok
                            THEN insert_transcript(transcripts,
                                                   [id |-> t.id, source |-> t.source])
                            ELSE transcripts
          /\ segments' = IF ok
                         THEN upsert_segments(segments, t.id,
                                [k \in 1..Len(t.segments) |-> t.segments[k].text])
                         ELSE segments
    /\ run' = [run EXCEPT !.i = @ + 1,
                          !.synced = IF ok THEN @ + 1 ELSE @,
                          !.failed = IF ok THEN @ ELSE @ + 1,
                          !.record = None, !.fetched = None]
    /\ calls' = calls \cup {"upsert"}
    /\ outcomes' = Append(outcomes, IF ok THEN "ok" ELSE "err")
    /\ pc' = IF run.i = Len(run.new_transcripts) THEN "complete" ELSE "fetch"
    /\ UNCHANGED <<now, provider, sync_state, sync_runs, result, chg, prev_quiet,
                   tag_requests, written, tags, prev_clean, interrupted>>

FetchNext ==
    \/ FetchOne
    \/ \E ok \in BOOLEAN : StoreFetched(ok)

FetchSpec == FetchInit /\ [][FetchNext]_vars

FirefliesListInit ==
    /\ ListStart
    /\ \E items \in Collections(Dates), since \in Dates :
          /\ provider = [s \in {"fireflies"} |-> items]
          /\ run = [IdleRun EXCEPT !.kind = "list", !.source = "fireflies",
                                   !.cursor = since]

PocketListInit ==
    /\ ListStart
    /\ \E items \in Collections(PocketDates), since \in Dates, n \in 1..MaxPages :
          \E served \in Cuts(Pages(items, 1), n), meta \in {None, Some(n)} :
             /\ provider = [s \in {"pocket"} |-> items]
             /\ run = [IdleRun EXCEPT !.kind = "list", !.source = "pocket",
                                      !.cursor = since,
                                      !.served = served, !.meta = meta]

ListInit == FirefliesListInit \/ PocketListInit

\* One iteration of the loop of FirefliesConnector::list_remote: the request
\* at the current skip, the per-record loop over its page, and the test for
\* the last page; after the loop the sort, and the return.
FirefliesPage ==
    /\ pc = "list"
    /\ run.source = "fireflies"
    /\ LET transcripts_page == transcripts_query(provider[run.source], PageSize, run.skip)
           all == run.all \o fireflies_keep(transcripts_page, run.cursor)
           last == transcripts_page = << >> \/ ShortPage(Len(transcripts_page))
       IN /\ run' = [run EXCEPT !.requests = Append(@, run.skip),
                                !.all = all,
                                !.skip = IF last THEN @ ELSE @ + PageSize,
                                !.remote = IF last THEN SortDesc(all) ELSE @,
                                !.since = IF last THEN <<run.cursor>> ELSE @]
          /\ pc' = IF last THEN "listed" ELSE "list"
    /\ UNCHANGED <<now, provider, transcripts, sync_state, sync_runs, result, calls,
                   outcomes, chg, prev_quiet, segments, tag_requests, written, tags, prev_clean, interrupted>>

\* One iteration of the loop of PocketConnector::list_remote: the request for
\* the current page, the break on an empty page, the per-record loop, and the
\* test page >= last_page; after the loop the sort, and the return.
PocketPage ==
    /\ pc = "list"
    /\ run.source = "pocket"
    /\ LET json == recordings_page(run.served, run.meta, run.page)
           recordings == json.data
           all == run.all \o pocket_keep(recordings, run.cursor)
           last == recordings = << >> \/ run.page >= LastPage(json)
       IN /\ run' = [run EXCEPT !.requests = Append(@, run.page),
                                !.all = all,
                                !.page = IF last THEN @ ELSE @ + 1,
                                !.remote = IF last THEN SortDesc(all) ELSE @,
                                !.since = IF last THEN <<run.cursor>> ELSE @]
          /\ pc' = IF last THEN "listed" ELSE "list"
    /\ UNCHANGED <<now, provider, transcripts, sync_state, sync_runs, result, calls,
                   outcomes, chg, prev_quiet, segments, tag_requests, written, tags, prev_clean, interrupted>>

\* self.graphql_request(&query)? or self.get_json(&path)? fails, or the answer
\* has not the expected structure: list_remote returns the error, and none of
\* the entries collected so far.
ListPageFail ==
    /\ pc = "list"
    /\ run.kind = "list"
    /\ Return("list_err")
    /\ UNCHANGED <<now, provider, transcripts, sync_state, sync_runs, run, calls,
                   outcomes, chg, prev_quiet, segments, tag_requests, written, tags, prev_clean, interrupted>>

ListNext == FirefliesPage \/ PocketPage \/ ListPageFail

ListSpec == ListInit /\ [][ListNext]_vars

\* The Fireflies connector on its own; the listing call is not suspended
\* forever: each request is answered.
FirefliesListNext == FirefliesPage \/ ListPageFail

FirefliesListSpec ==
    FirefliesListInit /\ [][FirefliesListNext]_vars /\ WF_vars(FirefliesListNext)

\* ================================================================ claims
Key == CursorKey(run.source)

Row == sync_runs[1]

Count(seq, v) == Cardinality({k \in 1..Len(seq) : seq[k] = v})

\* C1: a run_sync invocation with dry_run = true never calls start_sync_run,
\* complete_sync_run, insert_transcript or delete_transcript, whatever the
\* listing and the store, the empty diff included.
C1_DryRunSyncNoLedgerNoStore ==
    (run.kind = "sync" /\ run.dry_run)
        => /\ calls \cap {"start_run", "complete_run", "upsert", "delete"} = {}
           /\ sync_runs = << >>
           /\ transcripts = run.pre_rows

\* C2: a run_sync invocation with dry_run = true never calls set_sync_state and
\* leaves the cursor of its source as it was, the empty diff included.
C2_DryRunSyncCursorUnchanged ==
    (run.kind = "sync" /\ run.dry_run)
        => /\ "set_state" \notin calls
           /\ sync_state[Key] = run.pre_state[Key]

\* C3: a run_audit invocation with dry_run = true writes nothing: no ledger row,
\* no upsert, no delete, no set_state, whether or not it finds discrepancies.
C3_DryRunAuditWritesNothing ==
    (run.kind = "audit" /\ run.dry_run)
        => /\ calls = {}
           /\ sync_runs = << >>
           /\ transcripts = run.pre_rows
           /\ sync_state = run.pre_state

\* C4: when the operator declines the confirmation of an initial sync, the
\* invocation still records one completed SyncRun with skipped = the number of
\* to_fetch items, synced = 0 and errors = 0, and fetches and stores nothing.
C4_DeclineStillRecorded ==
    (pc = "returned" /\ run.declined)
        => /\ Len(sync_runs) = 1
           /\ Row.status = "completed"
           /\ Row.skipped = Len(run.new_transcripts)
           /\ Row.synced = 0
           /\ Row.errors = 0
           /\ outcomes = << >>
           /\ transcripts = run.pre_rows

\* C5: every completed SyncRun, of mode initial, incremental or audit, has
\* status "failed" exactly when synced = 0 and errors > 0, else "completed".
C5_StatusFailedIffNoSuccess ==
    \A k \in 1..Len(sync_runs) :
        sync_runs[k].status # "running"
            => /\ sync_runs[k].status \in {"failed", "completed"}
               /\ (sync_runs[k].status = "failed")
                      <=> (sync_runs[k].synced = 0 /\ sync_runs[k].errors > 0)

\* C6: in run_sync's loop over the n to_fetch items a failed fetch or store
\* never ends the loop: while it runs the next item is attempted, and once it
\* is over all n items were attempted, synced + failed = n, failed is the
\* number of items that failed, and these are the counts the ledger gets
\* (status completed as soon as one item was synced).
LoopStarted == run.kind = "sync" /\ run.i >= 1

C7_MissedItemListedAgain ==
    (pc = "diff" /\ run.mode = "incremental" /\ run.quiet)
        => \A e \in provider[run.source] :
              ~transcript_exists(e.id) => \E k \in 1..Len(run.remote) : run.remote[k].id = e.id

\* C8: a stored cursor is never removed and never replaced by an earlier
\* timestamp, whatever invocations run and however they end.
C8_CursorMonotonic ==
    [][\A k \in StateKeys :
          sync_state[k] # None
              => /\ sync_state'[k] # None
                 /\ Unwrap(sync_state'[k]) >= Unwrap(sync_state[k])]_vars

\* C8 witness: an invocation that found a cursor has replaced it by a later one.
C8_Witness ==
    /\ pc = "returned"
    /\ run.pre_state[Key] # None
    /\ sync_state[Key] # None
    /\ Unwrap(sync_state[Key]) > Unwrap(run.pre_state[Key])

\* C9 as stated: the second of two consecutive incremental run_sync
\* invocations with no new remote data ends with synced = 0, stores no
\* transcript and leaves a cursor not earlier than the one it found.
C9_IdempotentAsStated ==
    (pc = "returned" /\ result = "ok" /\ run.kind = "sync"
        /\ run.mode = "incremental" /\ run.quiet /\ prev_quiet)
        => /\ run.synced = 0
           /\ transcripts = run.pre_rows
           /\ sync_state[Key] # None
           /\ Unwrap(sync_state[Key]) >= Unwrap(run.cursor)

\* The remote records an incremental listing after the cursor can return and
\* the store lacked when the invocation began.
Rescanned ==
    {e \in provider[run.source] :
        /\ e.date = None \/ Unwrap(e.date) > Unwrap(run.cursor)
        /\ \A t \in run.pre_rows : t.id # e.id}

\* C9 (amended): an incremental run_sync with no new remote data since the
\* cursor was written, begun when every remote record that is undated or dated
\* after the cursor is already stored, ends with synced = 0, stores no
\* transcript and leaves a cursor not earlier than the one it found; so do two
\* such runs in a row.
C9_IncrementalIdempotent ==
    (pc = "returned" /\ result = "ok" /\ run.kind = "sync"
        /\ run.mode = "incremental" /\ run.quiet /\ Rescanned = {})
        => /\ run.synced = 0
           /\ \A k \in 1..Len(sync_runs) : sync_runs[k].synced = 0
           /\ "upsert" \notin calls
           /\ transcripts = run.pre_rows
           /\ sync_state[Key] # None
           /\ Unwrap(sync_state[Key]) >= Unwrap(run.cursor)

\* C9 witness: the second of two consecutive incremental runs with no new
\* remote data; its listing was not empty (the re-scan overlap) and the remote
\* holds a record the store lacks.
C9_Witness ==
    /\ pc = "returned" /\ result = "ok" /\ run.kind = "sync"
    /\ run.mode = "incremental" /\ run.quiet /\ prev_quiet
    /\ Rescanned = {}
    /\ run.remote # << >>
    /\ run.synced = 0
    /\ \E e \in provider[run.source] : ~transcript_exists(e.id)

\* C10: when list_remote fails, or the existence check fails during the diff,
\* the invocation returns the error with the persistent state as it found it:
\* no SyncRun opened, cursor untouched, no transcript upserted or deleted.
C10_ListFailureChangesNothing ==
    (pc = "returned" /\ result \in {"list_err", "diff_err"})
        => /\ sync_runs = << >>
           /\ calls = {}
           /\ sync_state = run.pre_state
           /\ transcripts = run.pre_rows

\* C10 witness: a diff that failed over a non-empty store with a cursor set.
C10_Witness ==
    /\ pc = "returned" /\ result = "diff_err"
    /\ transcripts # {}
    /\ sync_state[Key] # None

\* C11: a SyncRun is "running" exactly until complete_sync_run has updated it,
\* no SyncRun is updated twice, and when run_sync or run_audit returns Ok every
\* SyncRun the invocation opened has been completed exactly once, whatever
\* items failed.
C11_RunCompletedExactlyOnce ==
    /\ \A k \in 1..Len(sync_runs) :
          /\ sync_runs[k].completions <= 1
          /\ (sync_runs[k].status = "running") <=> (sync_runs[k].completions = 0)
    /\ (pc = "returned" /\ result = "ok")
          => \A k \in 1..Len(sync_runs) :
                /\ sync_runs[k].status # "running"
                /\ sync_runs[k].completions = 1

\* C11 witness: a run_sync whose items all failed has returned Ok with its
\* SyncRun completed once.
C11_Witness ==
    /\ pc = "returned" /\ result = "ok" /\ run.kind = "sync"
    /\ outcomes = <<"err", "err">>
    /\ Len(sync_runs) = 1
    /\ Row.status = "failed" /\ Row.completions = 1

\* C12: a non-audit sync runs in mode initial when no cursor is stored for its
\* source or a full re-scan is requested, and in mode incremental otherwise.
C12_ModeSelection ==
    run.kind = "sync"
        => /\ (run.full \/ run.pre_state[Key] = None) => run.mode = "initial"
           /\ (~run.full /\ run.pre_state[Key] # None) => run.mode = "incremental"

\* C12 witness: a full re-scan requested while a cursor is stored runs as
\* initial.
C12_Witness ==
    /\ run.kind = "sync" /\ run.full
    /\ run.pre_state[Key] # None
    /\ run.mode = "initial"

\* C12 witness, other side: with a cursor stored and no full re-scan the run is
\* incremental.
C12_WitnessIncremental ==
    /\ run.kind = "sync" /\ ~run.full
    /\ run.pre_state[Key] # None
    /\ run.mode = "incremental"

\* C13: run_sync calls list_remote with a since-bound only in mode
\* incremental, and the bound is then the cursor stored for the source; in mode
\* initial the call has no bound, even with a cursor stored, and the listing
\* holds every remote record.
C13_SinceOnlyIncremental ==
    (run.kind = "sync" /\ run.since # << >>)
        => /\ run.mode = "incremental"
                => /\ run.pre_state[Key] # None
                   /\ run.since = <<run.pre_state[Key]>>
           /\ run.mode = "initial"
                => /\ run.since = <<None>>
                   /\ {r.id : r \in Range(run.remote)} = {e.id : e \in provider[run.source]}

\* C13 witness: a full re-scan with a cursor stored has listed a record dated
\* before the cursor.
C13_Witness ==
    /\ run.kind = "sync" /\ run.mode = "initial"
    /\ run.pre_state[Key] # None
    /\ run.since = <<None>>
    /\ \E k \in 1..Len(run.remote) :
          /\ run.remote[k].date # None
          /\ Unwrap(run.remote[k].date) < Unwrap(run.pre_state[Key])

\* C17: run_audit calls list_remote without a since-bound whatever cursor is
\* stored, and the listing holds every remote record.
C17_AuditListsUnbounded ==
    (run.kind = "audit" /\ run.since # << >>)
        => /\ run.since = <<None>>
           /\ {r.id : r \in Range(run.remote)} = {e.id : e \in provider[run.source]}

\* C17 witness: an audit run with a cursor stored has listed a record dated
\* before the cursor.
C17_Witness ==
    /\ run.kind = "audit"
    /\ run.pre_state[Key] # None
    /\ run.since = <<None>>
    /\ \E k \in 1..Len(run.remote) :
          /\ run.remote[k].date # None
          /\ Unwrap(run.remote[k].date) < Unwrap(run.pre_state[Key])

\* The listed entries whose id the store held when the invocation began.
ListedLocal == {k \in 1..Len(run.remote) : \E t \in run.pre_rows : t.id = run.remote[k].id}

\* C14: a run_sync that is not a dry run and finds nothing to fetch returns
\* with exactly one SyncRun, completed, with found = remote_total, synced = 0,
\* skipped = already_local and errors = 0, has fetched and stored nothing, and
\* has set the cursor to the current time.
C14_EmptyRunRecorded ==
    (pc = "returned" /\ result = "ok" /\ run.kind = "sync" /\ ~run.dry_run
        /\ run.new_transcripts = << >>)
        => /\ Len(sync_runs) = 1
           /\ Row.mode = run.mode /\ Row.source = run.source
           /\ Row.status = "completed" /\ Row.completions = 1
           /\ Row.found = Len(run.remote)
           /\ Row.synced = 0
           /\ Row.skipped = Cardinality(ListedLocal)
           /\ Row.errors = 0
           /\ outcomes = << >>
           /\ "upsert" \notin calls
           /\ transcripts = run.pre_rows
           /\ sync_state[Key] = Some(Truncate(now))

\* C14 witness: every listed record was already local, and the cursor moved
\* from an earlier second to the current one.
C14_Witness ==
    /\ pc = "returned" /\ result = "ok" /\ run.kind = "sync" /\ ~run.dry_run
    /\ run.new_transcripts = << >>
    /\ Len(run.remote) >= 2
    /\ Row.skipped = Len(run.remote)
    /\ run.pre_state[Key] # None
    /\ Unwrap(sync_state[Key]) > Unwrap(run.pre_state[Key])

\* run_sync is past its diff loop.
DiffDone ==
    /\ run.kind = "sync"
    /\ pc \notin {"idle", "list", "diff"}
    /\ result \notin {"list_err", "diff_err"}

\* The place of an id in the listing.
Pos(id) == CHOOSE k \in 1..Len(run.remote) : run.remote[k].id = id

\* C15: the diff splits the listing in two: an entry whose id the store holds
\* is counted in already_local and is not in to_fetch, an entry whose id the
\* store lacks is in to_fetch once, already_local + |to_fetch| = remote_total,
\* and to_fetch is in listing order.
C15_DiffPartitions ==
    DiffDone
        => LET new == run.new_transcripts
           IN /\ \A k \in 1..Len(run.remote) :
                    (k \in ListedLocal) <=> (run.remote[k] \notin Range(new))
              /\ Range(new) \subseteq Range(run.remote)
              /\ run.already_local = Cardinality(ListedLocal)
              /\ run.already_local + Len(new) = Len(run.remote)
              /\ \A i \in 1..Len(new) : \A j \in 1..Len(new) :
                    i < j => Pos(new[i].id) < Pos(new[j].id)

\* C15 witness: of three listed entries the second is local and the other two
\* are to be fetched.
C15_Witness ==
    /\ DiffDone
    /\ Len(run.remote) = 3
    /\ ListedLocal = {2}
    /\ Len(run.new_transcripts) = 2

\* C16: after run_audit's comparison, with remote_ids the listed ids and
\* local_ids the ids stored under the audited source, missing_locally is
\* remote_ids \ local_ids and orphaned_locally is local_ids \ remote_ids; each
\* with the common ids gives back remote_ids and local_ids, and the two are
\* disjoint.
C16_AuditPartition ==
    (run.kind = "audit" /\ run.compared)
        => LET remote_ids == {r.id : r \in Range(run.remote)}
               local_ids == {t.id : t \in {u \in run.pre_rows : u.source = run.source}}
               missing == {r.id : r \in Range(run.missing_locally)}
               orphaned == run.orphaned_locally
           IN /\ missing = remote_ids \ local_ids
              /\ orphaned = local_ids \ remote_ids
              /\ missing \cup (remote_ids \cap local_ids) = remote_ids
              /\ orphaned \cup (remote_ids \cap local_ids) = local_ids
              /\ missing \cap orphaned = {}
              /\ Len(run.missing_locally) = Cardinality(missing)
              /\ run.local_total = Cardinality(local_ids)

\* C16 witness: remote {1, 2}, local {2, 3} give missing {1} and orphaned {3}.
C16_Witness ==
    /\ run.kind = "audit" /\ run.compared
    /\ {r.id : r \in Range(run.remote)} = {1, 2}
    /\ {t.id : t \in {u \in run.pre_rows : u.source = run.source}} = {2, 3}
    /\ {r.id : r \in Range(run.missing_locally)} = {1}
    /\ run.orphaned_locally = {3}

\* The ids in a set of transcript rows.
IdsOf(rows) == {t.id : t \in rows}

\* C18: one run_audit invocation never both upserts and deletes: it upserts
\* only under the answer "s" and then removes no id from the store, it deletes
\* only under the answer "d" and then adds no row, and under any other answer
\* it leaves the store as it was, also when both missing_locally and
\* orphaned_locally are non-empty.
C18_OneDisposition ==
    run.kind = "audit"
        => /\ ~("upsert" \in calls /\ "delete" \in calls)
           /\ "upsert" \in calls
                => run.answer = "s" /\ IdsOf(run.pre_rows) \subseteq IdsOf(transcripts)
           /\ "delete" \in calls
                => run.answer = "d" /\ transcripts \subseteq run.pre_rows
           /\ run.answer \notin {"s", "d"} => transcripts = run.pre_rows
           /\ IdsOf(transcripts) \ IdsOf(run.pre_rows)
                 \subseteq {r.id : r \in Range(run.missing_locally)}
           /\ IdsOf(run.pre_rows) \ IdsOf(transcripts) \subseteq run.orphaned_locally

\* C18 witness: an audit that found both missing and orphaned transcripts was
\* answered "s", stored a missing one, and returned with the orphans in place.
C18_Witness ==
    /\ pc = "returned" /\ result = "ok" /\ run.kind = "audit"
    /\ run.missing_locally # << >> /\ run.orphaned_locally # {}
    /\ run.answer = "s"
    /\ "upsert" \in calls /\ run.synced >= 1
    /\ run.orphaned_locally \subseteq IdsOf(transcripts)

\* C18 witness, other direction: the same findings answered "d".
C18_WitnessDelete ==
    /\ pc = "returned" /\ result = "ok" /\ run.kind = "audit"
    /\ run.missing_locally # << >> /\ run.orphaned_locally # {}
    /\ run.answer = "d"
    /\ "delete" \in calls
    /\ IdsOf(transcripts) \cap {r.id : r \in Range(run.missing_locally)} = {}

\* C19: a run_audit that is not a dry run and returns Ok has recorded exactly
\* one SyncRun, of mode "audit", closed with the remote and local totals: after
\* any answer to the prompt, the no-action answers included, and, without any
\* prompt and with status completed, when no discrepancy was found.
C19_AuditAlwaysRecorded ==
    (pc = "returned" /\ result = "ok" /\ run.kind = "audit" /\ ~run.dry_run)
        => /\ Len(sync_runs) = 1
           /\ Row.mode = "audit" /\ Row.source = run.source
           /\ Row.status # "running" /\ Row.completions = 1
           /\ Row.found = Len(run.remote)
           /\ Row.skipped = Cardinality({t \in run.pre_rows : t.source = run.source})
           /\ (run.missing_locally = << >> /\ run.orphaned_locally = {})
                => /\ run.answer = ""
                   /\ Row.status = "completed"
                   /\ calls = {"start_run", "complete_run"}
           /\ (run.missing_locally # << >> \/ run.orphaned_locally # {})
                => run.answer \in Answers

\* C19 witness: discrepancies were found and the operator chose no action.
C19_Witness ==
    /\ pc = "returned" /\ result = "ok" /\ run.kind = "audit" /\ ~run.dry_run
    /\ run.missing_locally # << >> /\ run.orphaned_locally # {}
    /\ run.answer = "n"
    /\ Len(sync_runs) = 1 /\ Row.mode = "audit" /\ Row.status = "completed"

\* C19 witness, no discrepancy: remote and local agree on two transcripts.
C19_WitnessAgree ==
    /\ pc = "returned" /\ result = "ok" /\ run.kind = "audit" /\ ~run.dry_run
    /\ run.missing_locally = << >> /\ run.orphaned_locally = {}
    /\ Len(run.remote) = 2
    /\ Len(sync_runs) = 1 /\ Row.found = 2 /\ Row.skipped = 2

\* C20: every entry a connector returns from list_remote(since = T) carries a
\* date that is a timestamp strictly later than T.
C20_ListedStrictlyNewer ==
    (pc = "listed" /\ run.cursor # None)
        => \A k \in 1..Len(run.remote) :
              /\ run.remote[k].date # None
              /\ Unwrap(run.remote[k].date) > Unwrap(run.cursor)

\* C20 for the Pocket connector alone.
C20_PocketStrictlyNewer == run.source = "pocket" => C20_ListedStrictlyNewer

\* C20 for the Fireflies connector alone.
C20_FirefliesStrictlyNewer == run.source = "fireflies" => C20_ListedStrictlyNewer

\* The listing is in order of the instants its dates denote, newest first;
\* an entry whose date denotes no instant is not compared.
SortedByInstant(remote) ==
    \A k \in 1..(Len(remote) - 1) :
        (remote[k].date # None /\ remote[k + 1].date # None)
            => Unwrap(remote[k].date) >= Unwrap(remote[k + 1].date)

\* C21: the sequence list_remote returns is sorted newest-first for both
\* connectors: of two consecutive entries the first does not denote an earlier
\* instant than the second, whatever order the provider sends them in.
C21_SortedNewestFirst == pc = "listed" => SortedByInstant(run.remote)

\* C21 for the Pocket connector alone.
C21_PocketSortedNewestFirst == run.source = "pocket" => C21_SortedNewestFirst

\* C21 for the Fireflies connector alone.
C21_FirefliesSortedNewestFirst == run.source = "fireflies" => C21_SortedNewestFirst

\* The remote records the Fireflies `since` filter lets through: an absent
\* date counts as epoch 0.
FirefliesWanted ==
    {e \in provider["fireflies"] :
        run.cursor = None
           \/ (IF e.date = None THEN 0 ELSE Unwrap(e.date)) > Unwrap(run.cursor)}

\* The requests sent so far went to skip = 0, P, 2P, ... and every one before
\* the latest was answered with a full page.
FirefliesRequestsInStep ==
    LET n == Cardinality(provider["fireflies"])
    IN /\ \A k \in 1..Len(run.requests) : run.requests[k] = (k - 1) * PageSize
       /\ \A k \in 1..(Len(run.requests) - 1) : run.requests[k] + PageSize <= n

\* The listing has returned after the first short or empty page with every
\* wanted record exactly once.
FirefliesListedAll ==
    LET n == Cardinality(provider["fireflies"])
        asked == Len(run.requests)
    IN /\ asked >= 1
       /\ n < run.requests[asked] + PageSize
       /\ {run.remote[k].id : k \in 1..Len(run.remote)} = {e.id : e \in FirefliesWanted}
       /\ Len(run.remote) = Cardinality(FirefliesWanted)
       /\ run.remote = fireflies_list_remote(provider["fireflies"], run.cursor)

\* C22: over a finite remote collection that does not change during listing,
\* the Fireflies listing requests pages of the fixed size at skip = 0, P, 2P,
\* ... while each page is full, stops after the first short or empty page,
\* returns every remote record the since filter keeps exactly once, and
\* terminates; a failed request ends the listing with the error and no entries.
C22_FirefliesPagingComplete ==
    /\ [](run.source = "fireflies"
            => /\ FirefliesRequestsInStep
               /\ pc = "listed" => FirefliesListedAll
               /\ pc = "returned" => (result = "list_err" /\ run.remote = << >>))
    /\ ((run.source = "fireflies") ~> (pc \in {"listed", "returned"}))

\* C22 witness: three records, listed with two requests, the second answered
\* with a short page, one record dropped by the since filter.
C22_Witness ==
    /\ run.source = "fireflies" /\ pc = "listed"
    /\ Cardinality(provider["fireflies"]) = 3
    /\ run.requests = <<0, PageSize>>
    /\ Len(run.remote) = 2

\* C22 witness, empty last page: the collection fills its pages exactly, and
\* the listing stops on the empty page that follows.
C22_WitnessEmptyPage ==
    /\ run.source = "fireflies" /\ pc = "listed"
    /\ Cardinality(provider["fireflies"]) = PageSize
    /\ run.requests = <<0, PageSize>>
    /\ Len(run.remote) = PageSize

\* The Pocket listing has requested every page 1..last_page, in order, and
\* holds every record of those pages that the since filter keeps.
PocketListedAllPages ==
    LET last_page == Unwrap(run.meta)
        wanted == {e \in provider["pocket"] :
                      run.cursor = None \/ NewerThan(e.date, Unwrap(run.cursor))}
    IN /\ run.requests = [k \in 1..last_page |-> k]
       /\ {run.remote[k].id : k \in 1..Len(run.remote)} = {e.id : e \in wanted}
       /\ Len(run.remote) = Cardinality(wanted)

\* C23: the Pocket listing continues exactly while current_page < last_page
\* as the response metadata report it, not by page fullness: every page
\* 1..last_page is requested and its entries are included, and a page with
\* fewer than per_page entries, an empty page included, does not stop it.
C23_PocketFollowsLastPage ==
    (run.source = "pocket" /\ pc = "listed" /\ run.meta # None)
        => PocketListedAllPages

\* C23 without the empty pages: when no page before the last is empty, every
\* page 1..last_page is requested and included, however short the pages are.
C23_ShortPageDoesNotStop ==
    (run.source = "pocket" /\ pc = "listed" /\ run.meta # None
        /\ \A p \in 1..(Len(run.served) - 1) : run.served[p] # << >>)
        => PocketListedAllPages

\* C23, the entries alone: the listing holds the records of every page
\* 1..last_page that the since filter keeps.
C23_PocketDropsNoPage ==
    (run.source = "pocket" /\ pc = "listed" /\ run.meta # None)
        => \A p \in 1..Unwrap(run.meta) :
              \A e \in Range(pocket_keep(run.served[p], run.cursor)) :
                 \E k \in 1..Len(run.remote) : run.remote[k].id = e.id

\* The invocation was given a tag for the Pocket connector to resolve.
Tagged == run.tag # None /\ run.kind \in {"sync", "audit"}

\* The sync_state key of the invocation's tag.
RunTagKey == TagKey(Unwrap(run.tag))

\* C24 as stated: the tags-list request is sent at most once in total for a
\* tag name on one storage handle, however the first resolution ended.
C24_TagsListedAtMostOnce == \A n \in TagNames : tag_requests[n] <= 1

\* C24 (amended): a resolution that returns an id leaves it cached; a
\* resolution that finds the id cached sends no tags-list request and returns
\* the cached id; and a cached id is never removed or replaced.  So of two
\* resolutions of one tag name on one storage handle the second sends no
\* request when the first returned an id.
C24_TagCacheHit ==
    /\ [](Tagged /\ pc = "list"
            => /\ run.tag_id # None
               /\ sync_state[RunTagKey] = run.tag_id)
    /\ [](Tagged /\ run.pre_state[RunTagKey] # None
            => /\ <<"tags">> \notin Range(run.log)
               /\ pc \notin {"connect", "cache_tag"}
                     => (run.tag_id = run.pre_state[RunTagKey] \/ result = "storage_err"))
    /\ [][\A n \in TagNames :
             sync_state[TagKey(n)] # None
                => /\ sync_state'[TagKey(n)] = sync_state[TagKey(n)]
                   /\ tag_requests'[n] = tag_requests[n]]_vars

\* C24 witness: the second of two resolutions of the tag: the first sent the
\* one request and cached the id, this one found it and went on to list.
C24_Witness ==
    /\ Tagged /\ run.pre_state[RunTagKey] # None
    /\ tag_requests[Unwrap(run.tag)] = 1
    /\ run.tag_id = run.pre_state[RunTagKey]
    /\ <<"recordings">> \in Range(run.log)

\* C25: the tag is resolved when the Pocket connector is built, before any
\* listing or fetch call: a listing or fetch request is sent only with the id
\* resolved and after the tags-list request, and when the tag is in neither
\* the cache nor the remote list the invocation returns TagNotFound having
\* sent no recordings-listing request and no fetch, recorded no SyncRun, and
\* changed neither the cursor nor any other stored state.
C25_TagResolvedBeforeListing ==
    /\ Tagged
          => \A k \in 1..Len(run.log) :
                run.log[k][1] \in {"recordings", "fetch"}
                   => /\ run.tag_id # None
                      /\ \A j \in 1..Len(run.log) : run.log[j] = <<"tags">> => j < k
    /\ (pc = "returned" /\ result = "tag_not_found")
          => /\ Tagged
             /\ run.pre_state[RunTagKey] = None
             /\ run.log = << <<"tags">> >>
             /\ run.since = << >>
             /\ outcomes = << >>
             /\ sync_runs = << >>
             /\ calls = {}
             /\ sync_state = run.pre_state
             /\ transcripts = run.pre_rows

\* C25 witness: TagNotFound returned by an invocation that had recordings to
\* list and a cursor to move.
C25_Witness ==
    /\ pc = "returned" /\ result = "tag_not_found"
    /\ provider[run.source] # {}
    /\ sync_state[Key] # None

\* C25 witness, other side: with the tag resolved by a tags-list request, the
\* invocation went on to list and fetch.
C25_WitnessResolved ==
    /\ Tagged
    /\ Len(run.log) >= 3
    /\ run.log[1] = <<"tags">>
    /\ run.log[2] = <<"recordings">>
    /\ run.log[3][1] = "fetch"

\* The transcripts rows with this id.
rows_of(id) == {u \in transcripts : u.id = id}

\* The segments rows of this transcript id.
segments_of(id) ==
    [r \in {x \in DOMAIN segments : x.transcript_id = id} |-> segments[r]]

\* C26: re-ingesting an id overwrites rather than duplicates: whatever upserts
\* and deletes were made, the store holds at most one transcript row per id;
\* after an upsert of t the row and the segments of t.id are exactly those of
\* t (each segment once, none of an earlier version); after a delete the id
\* has no row and no segment.
C26_UpsertOverwrites ==
    /\ \A a \in transcripts, b \in transcripts : a.id = b.id => a = b
    /\ \A id \in Ids :
          /\ written[id].op = "upsert"
                => LET t == Unwrap(written[id].t)
                   IN /\ rows_of(id) = {transcript_row(t)}
                      /\ segments_of(id) = insert_segments(EmptyBag, id, t.segments)
          /\ written[id].op = "delete"
                => /\ rows_of(id) = {}
                   /\ segments_of(id) = EmptyBag

\* C26 witness: an id upserted over a stored version with other content, the
\* new version having one segment, while another id is stored too.
C26_Witness ==
    \E id \in Ids, other \in Ids :
        /\ other # id
        /\ written[id].op = "upsert" /\ written[id].over
        /\ Len(Unwrap(written[id].t).segments) = 1
        /\ written[other].op = "upsert"
        /\ Len(Unwrap(written[other].t).segments) = 2

\* run_sync has written the cursor in its last step and returned Ok.
Finalized ==
    /\ run.kind = "sync" /\ pc = "returned" /\ result = "ok"
    /\ "set_state" \in calls

\* C27: finalize sets the cursor to the clock's time at the end of the run,
\* in whole seconds, whatever the dates of the listed records; and an initial
\* sync over an empty store that listed three records, was not declined and
\* fetched each of them ends with synced = 3 and already_local = 0, in the
\* report and in the SyncRun.
C27_CursorIsFinalizeTime ==
    Finalized
        => /\ sync_state[Key] = Some(Truncate(now))
           /\ (run.mode = "initial" /\ run.pre_rows = {} /\ Len(run.remote) = 3
                  /\ outcomes = <<"ok", "ok", "ok">>)
                 => /\ run.synced = 3 /\ run.already_local = 0 /\ run.failed = 0
                    /\ Row.found = 3 /\ Row.synced = 3 /\ Row.skipped = 0
                    /\ Row.errors = 0 /\ Row.status = "completed"
                    /\ {t.id : t \in transcripts} = {run.remote[k].id : k \in 1..3}

\* C27 witness: the initial sync of three dated records into an empty store,
\* finalized at a time that is the date of none of them.
C27_Witness ==
    /\ Finalized
    /\ run.mode = "initial" /\ run.pre_rows = {} /\ Len(run.remote) = 3
    /\ ~run.declined
    /\ outcomes = <<"ok", "ok", "ok">>
    /\ \A k \in 1..3 : /\ run.remote[k].date # None
                        /\ run.remote[k].date # sync_state[Key]

\* An entry of the invocation's record of calls is a fetch_one call.
IsFetch(e) == e[1] = "fetch"

\* The fetch_one calls the invocation has made, in the order it made them.
Fetches == SelectSeq(run.log, IsFetch)

CursorWritten ==
    \/ "set_state" \in calls' /\ "set_state" \notin calls
    \/ \E s \in Synced : sync_state'[CursorKey(s)] # sync_state[CursorKey(s)]

\* C29: the cursor is written only by run_sync, in its last step, after the
\* SyncRun of the invocation has been completed (once, status no longer
\* "running"); the step writes nothing but the cursor of the invocation's
\* source; and until that step, through listing, diff, confirmation and the
\* whole fetch loop, the stored state is what it was when the invocation began.
C29_CursorAfterCompletion ==
    /\ [][CursorWritten
             => /\ run.kind = "sync"
                /\ pc \in {"cursor", "empty_cursor"} /\ pc' = "returned"
                /\ "complete_run" \in calls
                /\ run.run_id \in 1..Len(sync_runs)
                /\ sync_runs[run.run_id].status \in {"completed", "failed"}
                /\ sync_runs[run.run_id].completions = 1
                /\ sync_runs' = sync_runs
                /\ transcripts' = transcripts
                /\ \A k \in StateKeys \ {CursorKey(run.source)} :
                      sync_state'[k] = sync_state[k]]_vars
    /\ [](run.kind = "sync" /\ pc \notin {"idle", "returned"}
            => /\ sync_state = run.pre_state
               /\ "set_state" \notin calls)
    /\ [](run.kind = "sync" /\ pc \in {"start", "fetch", "complete", "empty_complete"}
            => \A k \in 1..Len(sync_runs) :
                  k = run.run_id /\ pc # "start" => sync_runs[k].status = "running")

\* C29 witness: a run that fetched two items, the second of which failed, was
\* completed and then moved the cursor.
C29_Witness ==
    /\ Finalized
    /\ outcomes = <<"ok", "err">>
    /\ Row.status = "completed" /\ Row.errors = 1 /\ Row.completions = 1
    /\ run.pre_state[Key] # None
    /\ sync_state[Key] # run.pre_state[Key]

\* The order of run_sync's states: SelectMode is the step from "idle", List
\* is "list", Diff is "diff", Empty is "empty_start" to "empty_cursor",
\* DryRunReport is the return from "diff", ConfirmGate is "confirm",
\* Fetch&Store is "start" and "fetch", Finalize is "complete" and "cursor".
SyncOrder ==
    {<<"idle", "list">>, <<"list", "diff">>,
     <<"diff", "empty_start">>, <<"diff", "returned">>, <<"diff", "confirm">>,
     <<"diff", "start">>,
     <<"empty_start", "empty_complete">>, <<"empty_complete", "empty_cursor">>,
     <<"empty_cursor", "returned">>,
     <<"confirm", "start">>, <<"confirm", "returned">>,
     <<"start", "fetch">>, <<"fetch", "fetch">>, <<"fetch", "complete">>,
     <<"complete", "cursor">>, <<"cursor", "returned">>,
     <<"returned", "idle">>}

\* A step out of a position by the failure of its call: the error is returned.
SyncFailure ==
    /\ pc \in {"list", "diff", "confirm"} \cup StoragePcs
    /\ pc' = "returned"
    /\ result' \in {"list_err", "diff_err", "io_err", "storage_err"}

\* C30: run_sync moves through its states in the order SelectMode, List,
\* Diff, then Empty or DryRunReport or ConfirmGate, then Fetch&Store, then
\* Finalize, leaving the order only by returning; the confirmation gate is
\* entered only from Diff, in mode initial, with the skip-confirmation flag
\* unset, not a dry run, and something to fetch; an incremental run is never
\* at the gate, and nothing is recorded or fetched before the gate is passed.
C30_StateOrderAndGate ==
    /\ [][(run.kind = "sync" \/ run'.kind = "sync") /\ pc' # pc
             => <<pc, pc'>> \in SyncOrder \/ SyncFailure]_vars
    /\ [][run.kind = "sync" /\ pc' = "confirm" /\ pc # "confirm"
             => /\ pc = "diff"
                /\ run.mode = "initial" /\ ~run.dry_run
                /\ run'.new_transcripts # << >>
                /\ ~Diff(TRUE)]_vars
    /\ [](run.kind = "sync" /\ pc = "confirm"
            => /\ run.mode = "initial" /\ ~run.dry_run
               /\ run.new_transcripts # << >>
               /\ sync_runs = << >> /\ calls = {} /\ outcomes = << >>)
    /\ [](run.kind = "sync" /\ pc \in {"start", "fetch", "complete", "cursor"}
            => /\ ~run.dry_run /\ ~run.declined
               /\ run.new_transcripts # << >>)
    /\ [](run.kind = "sync" /\ pc \in {"empty_start", "empty_complete", "empty_cursor"}
            => run.new_transcripts = << >> /\ outcomes = << >>)

\* C30 witness: the gate reached by a sync forced to initial with --full
\* although a cursor is stored.
C30_Witness ==
    /\ run.kind = "sync" /\ pc = "confirm"
    /\ run.full /\ run.pre_state[Key] # None
    /\ Len(run.new_transcripts) >= 2

\* C30 witness, other side: an incremental run with something to fetch went
\* from Diff to Fetch&Store.
C30_WitnessIncremental ==
    /\ run.kind = "sync" /\ pc = "fetch"
    /\ run.mode = "incremental"
    /\ Len(run.new_transcripts) >= 2

\* run_audit took the "d" arm: the loop over orphaned_locally.
DeleteArm ==
    /\ run.kind = "audit" /\ run.answer = "d" /\ run.orphaned_locally # {}
    /\ pc \in {"audit_delete", "audit_complete", "returned"}
    /\ "start_run" \in calls

\* The ids delete_transcript was called with, and those it removed.
DeleteAttempts == {outcomes[k][1] : k \in 1..Len(outcomes)}
Deleted == {outcomes[k][1] : k \in {j \in 1..Len(outcomes) : outcomes[j][2] = "ok"}}

\* C31: the delete disposition of run_audit calls delete_transcript only for
\* ids of orphaned_locally, the ids stored under the audited source when the
\* invocation began and absent from its listing, each at most once; the rows
\* gone from the store are exactly those whose delete succeeded, none of them
\* listed or stored under another source; and when the loop is over every
\* orphaned id has been attempted, whether or not a delete failed.  Outside
\* the "d" arm run_audit calls no delete.
C31_DeleteOnlyOrphans ==
    /\ (run.kind = "audit" /\ "delete" \in calls) => DeleteArm
    /\ DeleteArm
          => /\ run.orphaned_locally =
                   IdsOf({t \in run.pre_rows : t.source = run.source})
                      \ {r.id : r \in Range(run.remote)}
             /\ DeleteAttempts \subseteq run.orphaned_locally
             /\ Cardinality(DeleteAttempts) = Len(outcomes)
             /\ transcripts = {t \in run.pre_rows : t.id \notin Deleted}
             /\ \A t \in run.pre_rows \ transcripts :
                   /\ t.source = run.source
                   /\ t.id \notin {r.id : r \in Range(run.remote)}
             /\ pc \in {"audit_complete", "returned"}
                   => DeleteAttempts = run.orphaned_locally

\* C31 witness: two orphans, the delete of one failed and the other was
\* deleted, while a transcript of another source stays stored.
C31_Witness ==
    /\ DeleteArm /\ pc = "returned" /\ result = "ok"
    /\ Cardinality(run.orphaned_locally) = 2
    /\ Cardinality(Deleted) = 1
    /\ \E t \in transcripts : t.source # run.source
    /\ \E t \in transcripts : t.id \in run.orphaned_locally

\* C31 witness, listed id: an orphan was deleted while a listed transcript
\* stored under the audited source stays.
C31_WitnessListedKept ==
    /\ DeleteArm /\ pc = "returned" /\ result = "ok"
    /\ Deleted # {}
    /\ \E t \in transcripts :
          t.source = run.source /\ t.id \in {r.id : r \in Range(run.remote)}

\* run_audit was answered and took the "j" arm or the default arm: the answer
\* is neither "s" with something missing nor "d" with something orphaned.
QuietArm ==
    /\ run.kind = "audit"
    /\ pc \in {"audit_complete", "returned"}
    /\ "start_run" \in calls
    /\ run.missing_locally # << >> \/ run.orphaned_locally # {}
    /\ ~(run.answer = "s" /\ run.missing_locally # << >>)
    /\ ~(run.answer = "d" /\ run.orphaned_locally # {})

\* C32: under the export answer and under every answer that takes no action
\* run_audit fetches nothing, calls neither insert_transcript nor
\* delete_transcript, and leaves the transcripts and sync_state as they were;
\* what it leaves behind is its one SyncRun, of mode audit, completed with
\* synced = 0 and errors = 0.
C32_ExportAndNothingKeepStore ==
    QuietArm
        => /\ transcripts = run.pre_rows
           /\ sync_state = run.pre_state
           /\ calls \subseteq {"start_run", "complete_run"}
           /\ outcomes = << >>
           /\ run.log = << <<"recordings">> >>
           /\ run.synced = 0 /\ run.failed = 0
           /\ Len(sync_runs) = 1 /\ Row.mode = "audit"
           /\ (pc = "returned" /\ result = "ok")
                 => /\ Row.status = "completed" /\ Row.completions = 1
                    /\ Row.synced = 0 /\ Row.errors = 0
                    /\ Row.found = Len(run.remote)
                    /\ Row.skipped = run.local_total

\* C32 witness: missing and orphaned transcripts were found and the answer
\* was the export.
C32_Witness ==
    /\ QuietArm /\ pc = "returned" /\ result = "ok"
    /\ run.answer = "j"
    /\ run.missing_locally # << >> /\ run.orphaned_locally # {}

\* C32 witness, answer not applicable: "d" when nothing is orphaned.
C32_WitnessNotApplicable ==
    /\ QuietArm /\ pc = "returned" /\ result = "ok"
    /\ run.answer = "d"
    /\ Len(run.missing_locally) >= 2

\* run_audit took the "s" arm: the loop over missing_locally.
SyncArm ==
    /\ run.kind = "audit" /\ run.answer = "s" /\ run.missing_locally # << >>
    /\ pc \in {"audit_fetch", "audit_complete", "returned"}
    /\ "start_run" \in calls

MatchedId(list, tag_name) ==
    LET hits == {k \in 1..Len(list) : ascii_lower(list[k].name) = ascii_lower(tag_name)}
    IN list[CHOOSE k \in hits : \A j \in hits : k <= j].id

\* C34: the tag cache is permanent: a value stored under the key of a tag
\* name is never replaced or removed; a resolution that finds it returns it
\* and sends no request, whatever Pocket's tag list has become; a value is
\* stored only by a resolution of that name whose request was answered with a
\* list holding a tag of that name, ASCII case ignored, with an id, and it is
\* that id; a resolution that fails stores nothing.
C34_TagCachePermanent ==
    /\ [][\A n \in TagNames :
             sync_state[TagKey(n)] # None
                => sync_state'[TagKey(n)] = sync_state[TagKey(n)]]_vars
    /\ [][\A n \in TagNames :
             (sync_state[TagKey(n)] = None /\ sync_state'[TagKey(n)] # None)
                => /\ pc = "cache_tag" /\ run.tag = Some(n)
                   /\ run.log = << <<"tags">> >>
                   /\ tag_search(tags, n) = "found"
                   /\ sync_state'[TagKey(n)] = MatchedId(tags, n)]_vars
    /\ [](Tagged /\ run.pre_state[RunTagKey] # None
            => /\ <<"tags">> \notin Range(run.log)
               /\ sync_state[RunTagKey] = run.pre_state[RunTagKey]
               /\ pc # "connect"
                     => (run.tag_id = run.pre_state[RunTagKey] \/ result = "storage_err"))
    /\ [](pc = "returned" /\ result \in {"tag_not_found", "tag_err"}
            => sync_state = run.pre_state)
    /\ [](pc = "returned" /\ result = "tag_not_found"
            => \A k \in 1..Len(tags) :
                  ascii_lower(tags[k].name) # ascii_lower(Unwrap(run.tag)))

\* C34 witness: the cached id was returned for a tag that Pocket's list no
\* longer holds.
C34_Witness ==
    /\ Tagged /\ pc = "list"
    /\ run.pre_state[RunTagKey] # None
    /\ run.tag_id = run.pre_state[RunTagKey]
    /\ tag_search(tags, Unwrap(run.tag)) = "not_found"
    /\ tag_requests[Unwrap(run.tag)] = 1

\* C34 witness, the match: the id was cached from a list that spells the tag
\* with a capital, behind a tag of another name.
C34_WitnessCaseIgnored ==
    /\ Tagged /\ pc = "list" /\ run.tag = Some("work")
    /\ "cache_tag" \in calls
    /\ Len(tags) = 2 /\ tags[2].name = "Work"
    /\ sync_state[RunTagKey] = Some(TagId("work"))

\* text is a prefix of whole.
IsPrefix(text, whole) ==
    Len(text) <= Len(whole) /\ text = SubSeq(whole, 1, Len(text))

\* The Pocket record just converted, and the transcript made of it.
Converted == pc = "store" /\ run.source = "pocket"

\* What C35 says of a conversion that returned.
CapHolds ==
    LET rec == Unwrap(run.record)
        t == Unwrap(run.fetched)
    IN /\ Len(t.raw_text) <= RawCap
       /\ rec.text # None => IsPrefix(t.raw_text, Unwrap(rec.text))
       /\ Len(t.segments) = Len(rec.segments)
       /\ \A k \in 1..Len(rec.segments) :
             /\ t.segments[k].text = rec.segments[k]
             /\ t.segments[k].segment_index = k - 1

\* C35: for every Pocket record fetch_one succeeds, with a raw_text of at most
\* the cap's number of characters that is a prefix of the provider's
\* transcript text, and with all of the provider's segments in order, indexed
\* 0, 1, 2, ... whatever the cap did.
C35_RawTextCapped ==
    /\ pc # "panicked"
    /\ Converted => CapHolds

\* C35 without the panic: a conversion that returns has the capped prefix and
\* all segments.
C35_CappedWhenReturned == Converted => CapHolds

\* C35, the capped case: a text longer than the cap was cut to a proper
\* prefix and both segments were kept.
C35_WitnessCut ==
    /\ Converted
    /\ Unwrap(run.record).text # None
    /\ byte_len(Unwrap(Unwrap(run.record).text)) > RawCap
    /\ Unwrap(run.fetched).raw_text # Unwrap(Unwrap(run.record).text)
    /\ Len(Unwrap(run.fetched).segments) = 2

\* C35, the failing case: the conversion of a Pocket record panicked.
C35_WitnessPanic ==
    /\ pc = "panicked"
    /\ run.source = "pocket"
    /\ ~is_char_boundary(Unwrap(Unwrap(run.record).text), RawCap)

\* The listed ids that exist locally.
ListedStored ==
    {k \in 1..Len(run.remote) : transcript_exists(run.remote[k].id)}

\* C39: at the end of the fetch loop of run_sync the number of listed ids that
\* exist locally equals already_local + synced: every id counted as synced is
\* the id of a stored transcript.
C39_SyncedIdStored ==
    (run.kind = "sync" /\ pc = "complete")
        => Cardinality(ListedStored) = run.already_local + run.synced

\* C39 for a provider whose records always carry their id.
C39_SyncedIdStoredFireflies == run.source = "fireflies" => C39_SyncedIdStored

\* C39, the failing case: Pocket's record had no id, it was counted as synced
\* and the store holds it under a fresh uuid, not under the listed id.
C39_WitnessFreshId ==
    /\ pc = "complete" /\ run.source = "pocket"
    /\ run.synced = 1 /\ run.failed = 0
    /\ ~transcript_exists(run.remote[1].id)
    /\ transcript_exists(Uuid(1))

\* The audit follows at once a clean initial sync of its source, and has
\* compared the listing with the store.
AuditAfterCleanSync ==
    /\ run.kind = "audit" /\ run.compared
    /\ prev_clean = Some(run.source)

\* C36: an audit that follows at once a non-dry-run initial sync of the same
\* source, which completed with errors = 0 against the same remote, reports
\* missing_locally empty, whatever the store held before.
C36_SyncThenAuditAgree == AuditAfterCleanSync => run.missing_locally = << >>

\* C36 where no listed id is stored under another source: the audit that
\* follows the clean initial sync has nothing missing.
C36_AgreeWithinSource ==
    (/\ AuditAfterCleanSync
     /\ \A k \in 1..Len(run.remote) :
           \A t \in run.pre_rows : t.id = run.remote[k].id => t.source = run.source)
        => run.missing_locally = << >>

\* C36, the agreeing case: the sync stored two recordings and the audit that
\* follows lists both and misses none.
C36_Witness ==
    /\ AuditAfterCleanSync
    /\ Len(run.remote) = 2
    /\ run.missing_locally = << >>

\* C36, the failing case: the listed id is stored under another source, so the
\* sync skipped it and the audit misses it.
C36_WitnessOtherSource ==
    /\ AuditAfterCleanSync
    /\ run.missing_locally # << >>
    /\ \E t \in run.pre_rows :
          t.id = run.missing_locally[1].id /\ t.source # run.source

\* The ids of a listing.
ListedIds(remote) == {remote[k].id : k \in 1..Len(remote)}

\* The running invocation is a run_sync of the interrupted source with the
\* same --full option, the first since the interruption.
ReRun ==
    /\ interrupted # None
    /\ run.kind = "sync"
    /\ run.source = Unwrap(interrupted).source
    /\ run.full = Unwrap(interrupted).full

\* The step is the diff loop of run_sync, run to its end.
DiffStep ==
    /\ pc = "diff"
    /\ pc' \in {"empty_start", "confirm", "start"} \/ (pc' = "returned" /\ result' = "ok")

C37_WitnessIncremental ==
    /\ ReRun /\ pc = "start"
    /\ run.mode = "incremental"
    /\ Unwrap(interrupted).cursor # None
    /\ Unwrap(interrupted).stored # {}

\* The cursors of all sources.
Cursors(table) == [s \in Sources |-> table[CursorKey(s)]]

\* C38: run_audit neither uses nor writes the cursor: whatever the disposition,
\* the cursors are what they were when the audit began, and it lists without
\* a bound; and the cursor of a source changes only in a run_sync of that
\* source.
C38_AuditLeavesCursors ==
    /\ [](run.kind = "audit"
            => /\ Cursors(sync_state) = Cursors(run.pre_state)
               /\ run.cursor = None
               /\ run.since \in {IdleRun.since, <<None>>})
    /\ [][\A s \in Sources :
             sync_state'[CursorKey(s)] # sync_state[CursorKey(s)]
                => run.kind = "sync" /\ run.source = s]_vars

\* C38 witness: an audit chose sync-all-missing, stored an item and returned;
\* the cursor of its source, set by an earlier sync, and the cursor of the
\* other source are as before.
C38_Witness ==
    /\ run.kind = "audit" /\ pc = "returned" /\ result = "ok"
    /\ run.answer = "s" /\ run.synced >= 1
    /\ sync_state[CursorKey(run.source)] # None
    /\ sync_state[CursorKey("fireflies")] # None
    /\ run.source # "fireflies"

\* C38 witness, run_sync: a sync of one source wrote its cursor beside the
\* cursor of the other.
C38_WitnessSync ==
    /\ Finalized
    /\ run.source = "pocket"
    /\ sync_state[CursorKey("pocket")] # run.pre_state[CursorKey("pocket")]
    /\ sync_state[CursorKey("fireflies")] # None

\* The SyncRuns of run_sync that complete_sync_run has updated.
CompletedSyncRuns ==
    {k \in 1..Len(sync_runs) :
        /\ sync_runs[k].mode \in {"initial", "incremental"}
        /\ sync_runs[k].completions >= 1}

\* C40: every completed SyncRun of mode initial or incremental has
\* found = synced + skipped + errors, with skipped the already_local count of
\* the run, and its synced and errors are the synced and failed counts of the
\* SyncReport run_sync returns.
C40_LedgerArithmetic ==
    \A k \in CompletedSyncRuns :
        /\ sync_runs[k].found
              = sync_runs[k].synced + sync_runs[k].skipped + sync_runs[k].errors
        /\ sync_runs[k].skipped = run.already_local
        /\ sync_runs[k].synced = run.synced
        /\ sync_runs[k].errors = run.failed

\* C40 witness: a run that returned its report left a SyncRun with one item
\* synced, one skipped and one failed.
C40_Witness ==
    /\ run.kind = "sync" /\ pc = "returned" /\ result = "ok"
    /\ \E k \in CompletedSyncRuns :
          /\ sync_runs[k].found = 3
          /\ sync_runs[k].synced = 1
          /\ sync_runs[k].skipped = 1
          /\ sync_runs[k].errors = 1

\* C40 witness, the run with nothing new: two found, two skipped.
C40_WitnessNothingNew ==
    /\ run.kind = "sync" /\ pc = "returned" /\ result = "ok"
    /\ \E k \in CompletedSyncRuns :
          /\ sync_runs[k].found = 2
          /\ sync_runs[k].skipped = 2

====
